---- MODULE Spec2Model ----
(***************************************************************************)
(* A model of mozc's DictionaryPredictor                                   *)
(* (src/src/prediction/dictionary_predictor.cc).                           *)
(*                                                                         *)
(* A string is a sequence of characters.  A character is a short token     *)
(* that stands for one code point; ByteWidth gives its UTF-8 width and     *)
(* ScriptOf its script, so that string::size() (bytes) and Util::CharsLen  *)
(* (code points) stay different quantities.                                *)
(*                                                                         *)
(* A PredictionTypes bit set is a set of type names; NO_PREDICTION is the  *)
(* empty set, `a | b' is union and `a & b' is membership.                  *)
(***************************************************************************)
EXTENDS Integers, Sequences, FiniteSets, TLC

VARIABLES
  request,     \* ConversionRequest: config, client request, composer, flags
  segments,    \* Segments: request type, conversion segment 0, history
  env,         \* the borrowed collaborators (dictionaries, converters, ...)
  results,     \* vector<Result> of the running PredictForRequest call
  types,       \* PredictionTypes computed by GetPredictionTypes
  pc,          \* position inside the running call
  emit,        \* locals of AddPredictionToCandidates' loop
  ret,         \* value returned by the call ("none" while it runs)
  entry,       \* the Segments as they were handed to the call
  stats,       \* UsageStats counters, by name
  state_,      \* ThreadInternalState of a mozc::Thread object
  worker,      \* the thread running Thread::WrapperForPOSIX
  os           \* the platform the pthread implementation is built for

vars == <<request, segments, env, results, types, pc, emit, ret, entry, stats,
          state_, worker, os>>

\* ThreadInternalState(): no thread attached, not running, joinable.
ThreadInternalState ==
  [handle_ |-> "nullptr", is_running_ |-> FALSE, joinable_ |-> TRUE]

\* No thread was created yet; SIGUSR1 still has its default action.
NoWorker ==
  [pc |-> "none", cancel |-> FALSE, left |-> 0, starts |-> 0, sigaction |-> FALSE]

----------------------------------------------------------------------------
(* Characters and strings *)

Digits     == {"0", "1", "2"}
LowerAscii == {"a", "b", "c"}
UpperAscii == {"A", "B", "C"}
Ascii      == Digits \cup {"-"} \cup LowerAscii \cup UpperAscii
FullDigits == {"F0", "F1", "F2"}
FullAscii  == FullDigits \cup {"F-", "Fa", "Fb", "Fc", "FA", "FB", "FC"}
Hiragana   == {"h1", "h2", "h3", "h4", "h5"}
Katakana   == {"k1", "k2"}
Kanji      == {"j1", "j2"}

ByteWidth(c) == IF c \in Ascii \cup {"-"} THEN 1 ELSE 3

Size(s) ==
  LET single == Cardinality({i \in 1..Len(s) : ByteWidth(s[i]) = 1})
  IN single + 3 * (Len(s) - single)

CharsLenInBytes(s) == Size(s)

CharsLen(s) == Len(s)

StartsWith(s, prefix) ==
  /\ Len(prefix) <= Len(s)
  /\ SubSeq(s, 1, Len(prefix)) = prefix

Rep(c, n) == [i \in 1..n |-> c]

Min(a, b) == IF a < b THEN a ELSE b
Max(a, b) == IF a > b THEN a ELSE b

----------------------------------------------------------------------------
(* Constants of dictionary_predictor.cc *)

NO_PREDICTION == {}

kInfinity == 2097152

kMaxRealtimeKeySize == 300

----------------------------------------------------------------------------
(* Type decision *)

IsLatinInputModeNever(req) == FALSE

IsLatinInputMode(req) ==
  /\ req.has_composer
  /\ req.input_mode \in {"HALF_ASCII", "FULL_ASCII"}

IsMixedConversionEnabled(req) ==
  req.mixed_conversion \/ req.FLAGS_enable_mixed_conversion

IsTypingCorrectionEnabledAlways(req) == TRUE

IsTypingCorrectionEnabled(req) ==
  req.use_typing_correction \/ req.FLAGS_enable_typing_correction

IsZipCodeRequestDigitsOnly(key) ==
  /\ key # <<>>
  /\ \A i \in 1..Len(key) : key[i] \in Digits

IsZipCodeRequest(key) ==
  /\ key # <<>>
  /\ \A i \in 1..Len(key) : key[i] \in Digits \cup {"-"}

ShouldRealTimeConversionEnabledNoSizeGuard(req, segs) ==
  /\ segs.key # <<>>
  /\ \/ segs.request_type = "PARTIAL_SUGGESTION"
     \/ req.use_realtime_conversion
     \/ IsMixedConversionEnabled(req)

ShouldRealTimeConversionEnabled(req, segs) ==
  /\ ~(segs.key = <<>> \/ Size(segs.key) >= kMaxRealtimeKeySize)
  /\ \/ segs.request_type = "PARTIAL_SUGGESTION"
     \/ req.use_realtime_conversion
     \/ IsMixedConversionEnabled(req)

\* The part of GetPredictionTypes after the two NO_PREDICTION returns.
TypesWithSegment(req, segs) ==
  LET result0 == IF ShouldRealTimeConversionEnabled(req, segs)
                 THEN {"REALTIME"} ELSE {}
      zero_query_suggestion == req.zero_query_suggestion
      key     == segs.key
      key_len == CharsLen(key)
      kMinUnigramKeyLen == IF zero_query_suggestion THEN 1 ELSE 3
      kMinHistoryKeyLen == IF zero_query_suggestion THEN 2 ELSE 3
      history_segments_size == Len(segs.history)
      unigram ==
        IF \/ (segs.request_type = "PREDICTION" /\ key_len >= 1)
           \/ key_len >= kMinUnigramKeyLen
        THEN {"UNIGRAM"} ELSE {}
      bigram ==
        IF /\ history_segments_size > 0
           /\ Len(segs.history[history_segments_size].candidates) > 0
           /\ CharsLen(segs.history[history_segments_size].candidates[1].key)
                >= kMinHistoryKeyLen
        THEN {"BIGRAM"} ELSE {}
      suffix ==
        IF history_segments_size > 0 /\ zero_query_suggestion
        THEN {"SUFFIX"} ELSE {}
      typing ==
        IF IsTypingCorrectionEnabled(req) /\ key_len >= 3
        THEN {"TYPING_CORRECTION"} ELSE {}
  IN
  IF IsLatinInputMode(req) /\ ~zero_query_suggestion
  THEN (IF req.use_dictionary_suggest THEN result0 \cup {"ENGLISH"}
        ELSE result0)
  ELSE IF ~req.use_dictionary_suggest /\ segs.request_type = "SUGGESTION"
  THEN result0
  ELSE IF key_len = 0 /\ ~zero_query_suggestion
  THEN result0
  ELSE IF /\ segs.request_type = "SUGGESTION"
          /\ IsZipCodeRequest(key)
          /\ key_len < 6
  THEN result0
  ELSE result0 \cup unigram \cup bigram \cup suffix \cup typing

GetPredictionTypesNoConversionGuard(req, segs) ==
  IF segs.conversion_segments_size < 1
  THEN NO_PREDICTION
  ELSE TypesWithSegment(req, segs)

GetPredictionTypes(req, segs) ==
  IF segs.request_type = "CONVERSION"
  THEN NO_PREDICTION
  ELSE IF segs.conversion_segments_size < 1
  THEN NO_PREDICTION
  ELSE TypesWithSegment(req, segs)

----------------------------------------------------------------------------
(* size_t arithmetic.  The modulus stands for 2^64 (or 2^32); it is scaled  *)
(* to 2^30 so that sums stay inside TLC's integers.  Every size the model    *)
(* handles is far below it, so a wrapped difference is still larger than     *)
(* every size in play and wraps back when the subtrahend is added again.     *)

SizeTModulus == 2^30

SizeSub(a, b) == (a - b) % SizeTModulus
SizeAdd(a, b) == (a + b) % SizeTModulus

----------------------------------------------------------------------------
(* Result *)

MakeEmptyResult ==
  [key |-> <<>>, value |-> <<>>, wcost |-> 0, cost |-> 0, lid |-> 0,
   rid |-> 0, types |-> NO_PREDICTION, candidate_attributes |-> {},
   source_info |-> {}]

SetTypesAndTokenAttributes(r, prediction_types, token_attr) ==
  [r EXCEPT
     !.types = prediction_types,
     !.candidate_attributes =
        (IF "TYPING_CORRECTION" \in prediction_types
         THEN {"TYPING_CORRECTION"} ELSE {})
        \cup (IF prediction_types \cap {"REALTIME", "REALTIME_TOP"} # {}
              THEN {"REALTIME_CONVERSION"} ELSE {})
        \cup (IF "SPELLING_CORRECTION" \in token_attr
              THEN {"SPELLING_CORRECTION"} ELSE {})
        \cup (IF "USER_DICTIONARY" \in token_attr
              THEN {"USER_DICTIONARY", "NO_VARIANTS_EXPANSION"} ELSE {})]

InitializeByTokenAndTypes(r, token, prediction_types) ==
  [SetTypesAndTokenAttributes(r, prediction_types, token.attributes) EXCEPT
     !.key = token.key, !.value = token.value, !.wcost = token.cost,
     !.lid = token.lid, !.rid = token.rid]

SetSourceInfoForZeroQuery(r, type) ==
  [r EXCEPT !.source_info = @ \cup {type}]

----------------------------------------------------------------------------
(* Segments accessors *)

\* GetHistoryKeyAndValue: <<found, key, value>>
GetHistoryKeyAndValue(segs) ==
  IF Len(segs.history) = 0 THEN <<FALSE, <<>>, <<>>>>
  ELSE LET history_segment == segs.history[Len(segs.history)] IN
       IF Len(history_segment.candidates) = 0 THEN <<FALSE, <<>>, <<>>>>
       ELSE <<TRUE, history_segment.candidates[1].key,
              history_segment.candidates[1].value>>

\* segments.segments_size() and segments.segment(0).key(): history segments
\* come first, then the conversion segments.
SegmentsSize(segs) == Len(segs.history) + segs.conversion_segments_size

FirstSegmentKey(segs) ==
  IF Len(segs.history) > 0 THEN segs.history[1].key ELSE segs.key

----------------------------------------------------------------------------
(* Lookup callbacks and the dictionary's predictive / prefix traversal *)

kSuggestionMaxResultsSize == 256
kPredictionMaxResultsSize == 100000

RECURSIVE DropBytes(_, _)
DropBytes(s, n) ==
  IF n <= 0 \/ s = <<>> THEN s
  ELSE DropBytes(Tail(s), n - ByteWidth(Head(s)))

\* The `const set<string> *subsequent_chars' argument: NULL or a set.
NullChars == [null |-> TRUE, chars |-> {}]

\* PredictiveLookupCallback::OnKey.
OnKey(cb, key) ==
  IF cb.subsequent_chars.null THEN "TRAVERSE_CONTINUE"
  ELSE LET rest == DropBytes(key, cb.original_key_len) IN
       IF \E c \in cb.subsequent_chars.chars : StartsWith(rest, c)
       THEN "TRAVERSE_CONTINUE" ELSE "TRAVERSE_NEXT_KEY"

\* PredictiveLookupCallback::OnToken: the vector after the push.
OnTokenPush(cb, token, res) ==
  LET r0 == InitializeByTokenAndTypes(MakeEmptyResult, token, cb.types)
      r1 == IF cb.is_zero_query /\ "SUFFIX" \in cb.types
            THEN SetSourceInfoForZeroQuery(r0, "ZERO_QUERY_SUFFIX") ELSE r0
      r2 == IF cb.bigram /\ cb.is_zero_query
            THEN SetSourceInfoForZeroQuery(r1, "ZERO_QUERY_BIGRAM") ELSE r1
  IN Append(res, r2)

\* PredictiveBigramLookupCallback::OnToken skips a token whose value is not
\* a strict extension of the history value.
BigramSkips(cb, token) ==
  /\ cb.bigram
  /\ \/ ~StartsWith(token.value, cb.history_value)
     \/ Size(token.value) <= Size(cb.history_value)

\* DictionaryInterface::LookupPredictive driving a callback: the tokens of
\* the dictionary whose key starts with lookup_key, in dictionary order,
\* until OnToken answers TRAVERSE_DONE (results->size() >= limit_).
LookupPredictive(tokens, i, lookup_key, cb, res) ==
  LET Visited(t) == /\ StartsWith(t.key, lookup_key)
                    /\ OnKey(cb, t.key) # "TRAVERSE_NEXT_KEY"
                    /\ ~BigramSkips(cb, t)
      visited == SelectSeq(SubSeq(tokens, i, Len(tokens)), Visited)
      \* OnToken pushes first and answers TRAVERSE_DONE once the vector
      \* has limit_ elements
      room == IF Len(res) >= cb.limit THEN 1 ELSE cb.limit - Len(res)
      n == Min(Len(visited), room)
  IN res \o [j \in 1..n |-> OnTokenPush(cb, visited[j], <<>>)[1]]

Callback(prediction_types, limit, original_key_len, subsequent_chars, is_zero_query) ==
  [types |-> prediction_types, limit |-> limit,
   original_key_len |-> original_key_len,
   subsequent_chars |-> subsequent_chars, is_zero_query |-> is_zero_query,
   bigram |-> FALSE, history_value |-> <<>>]

BigramCallback(prediction_types, limit, original_key_len, subsequent_chars, history_value, is_zero_query) ==
  [types |-> prediction_types, limit |-> limit,
   original_key_len |-> original_key_len,
   subsequent_chars |-> subsequent_chars, is_zero_query |-> is_zero_query,
   bigram |-> TRUE, history_value |-> history_value]

\* FindValueCallback over DictionaryInterface::LookupPrefix: the first token
\* whose key is a prefix of lookup_key and whose value is target_value;
\* <<found, token>>.
RECURSIVE FindValue(_, _, _, _)
FindValue(tokens, i, lookup_key, target_value) ==
  IF i > Len(tokens) THEN <<FALSE, [key |-> <<>>, value |-> <<>>, cost |-> 0,
                                    lid |-> 0, rid |-> 0, attributes |-> {}]>>
  ELSE IF StartsWith(lookup_key, tokens[i].key)
          /\ tokens[i].value = target_value
  THEN <<TRUE, tokens[i]>>
  ELSE FindValue(tokens, i + 1, lookup_key, target_value)

GetCandidateCutoffThreshold(segs) ==
  IF segs.request_type = "PREDICTION"
  THEN kPredictionMaxResultsSize ELSE kSuggestionMaxResultsSize

UseExpansion(req) ==
  req.has_composer /\ req.FLAGS_enable_expansion_for_dictionary_predictor

SubsequentChars(expanded) ==
  IF expanded = {} THEN NullChars ELSE [null |-> FALSE, chars |-> expanded]

GetPredictiveResults(dictionary, history_key, req, segs, prediction_types, lookup_limit, res) ==
  IF ~UseExpansion(req)
  THEN LET input_key == history_key \o segs.key IN
       LookupPredictive(dictionary, 1, input_key,
                        Callback(prediction_types, lookup_limit,
                                 Size(input_key), NullChars, segs.key = <<>>),
                        res)
  ELSE LET input_key == history_key \o req.composer_base IN
       LookupPredictive(dictionary, 1, input_key,
                        Callback(prediction_types, lookup_limit,
                                 Size(input_key),
                                 SubsequentChars(req.composer_expanded),
                                 req.composer_base = <<>>),
                        res)

GetPredictiveResultsForBigram(dictionary, history_key, history_value, req, segs, prediction_types, lookup_limit, res) ==
  IF ~UseExpansion(req)
  THEN LET input_key == history_key \o segs.key IN
       LookupPredictive(dictionary, 1, input_key,
                        BigramCallback(prediction_types, lookup_limit,
                                       Size(input_key), NullChars,
                                       history_value, segs.key = <<>>),
                        res)
  ELSE LET input_key == history_key \o req.composer_base IN
       LookupPredictive(dictionary, 1, input_key,
                        BigramCallback(prediction_types, lookup_limit,
                                       Size(input_key),
                                       SubsequentChars(req.composer_expanded),
                                       history_value,
                                       req.composer_base = <<>>),
                        res)

----------------------------------------------------------------------------
(* Realtime aggregator *)

kFewResultThreshold == 8

GetRealtimeCandidateMaxSizeUnclamped(segs, mixed_conversion, max_size0) ==
  LET few == /\ SegmentsSize(segs) > 0
             /\ CharsLen(FirstSegmentKey(segs)) >= kFewResultThreshold
      max_size == IF few THEN Min(max_size0, 8) ELSE max_size0
      default_size == IF few THEN 5 ELSE 10
  IN CASE segs.request_type = "PREDICTION" ->
            (IF mixed_conversion THEN max_size ELSE default_size)
       [] segs.request_type = "SUGGESTION" ->
            (IF mixed_conversion THEN default_size ELSE 1)
       [] segs.request_type = "PARTIAL_PREDICTION" -> max_size
       [] segs.request_type = "PARTIAL_SUGGESTION" -> default_size
       [] OTHER -> 0

GetRealtimeCandidateMaxSize(segs, mixed_conversion, max_size0) ==
  LET few == /\ SegmentsSize(segs) > 0
             /\ CharsLen(FirstSegmentKey(segs)) >= kFewResultThreshold
      max_size == IF few THEN Min(max_size0, 8) ELSE max_size0
      default_size == IF few THEN 5 ELSE 10
      size == CASE segs.request_type = "PREDICTION" ->
                     (IF mixed_conversion THEN max_size ELSE default_size)
                [] segs.request_type = "SUGGESTION" ->
                     (IF mixed_conversion THEN default_size ELSE 1)
                [] segs.request_type = "PARTIAL_PREDICTION" -> max_size
                [] segs.request_type = "PARTIAL_SUGGESTION" -> default_size
                [] OTHER -> 0
  IN Min(max_size, size)

RECURSIVE ConcatValues(_, _)
ConcatValues(segs_out, i) ==
  IF i > Len(segs_out) THEN <<>>
  ELSE segs_out[i].value \o ConcatValues(segs_out, i + 1)

RECURSIVE SumCosts(_, _)
SumCosts(segs_out, i) ==
  IF i > Len(segs_out) THEN 0
  ELSE segs_out[i].cost + SumCosts(segs_out, i + 1)

\* PushBackTopConversionResult: env.converter is what
\* StartConversionForRequest answers -- ok, and the top candidate of each
\* conversion segment it produced.
PushBackTopNoTopLabel(segs, e, res) ==
  IF ~e.converter.ok THEN res
  ELSE LET out == e.converter.segments
           r0  == [MakeEmptyResult EXCEPT
                     !.key = segs.key,
                     !.lid = out[1].lid,
                     !.rid = out[Len(out)].rid]
           r1  == SetTypesAndTokenAttributes(r0, {"REALTIME"}, {})
           r2  == [r1 EXCEPT
                     !.candidate_attributes = @ \cup {"NO_VARIANTS_EXPANSION"},
                     !.value = ConcatValues(out, 1),
                     !.wcost = SumCosts(out, 1)]
       IN Append(res, r2)

PushBackTopConversionResult(segs, e, res) ==
  IF ~e.converter.ok THEN res
  ELSE LET out == e.converter.segments
           r0  == [MakeEmptyResult EXCEPT
                     !.key = segs.key,
                     !.lid = out[1].lid,
                     !.rid = out[Len(out)].rid]
           r1  == SetTypesAndTokenAttributes(r0, {"REALTIME", "REALTIME_TOP"},
                                             {})
           r2  == [r1 EXCEPT
                     !.candidate_attributes = @ \cup {"NO_VARIANTS_EXPANSION"},
                     !.value = ConcatValues(out, 1),
                     !.wcost = SumCosts(out, 1)]
       IN Append(res, r2)

\* ImmutableConverter::ConvertForRequest: on success it appends its
\* candidates to conversion segment 0 until the segment holds
\* max_prediction_candidates_size of them; on failure it appends nothing.
ConvertForRequest(segs, e) ==
  IF ~e.immutable.ok THEN segs
  ELSE LET room == segs.max_prediction_candidates_size - Len(segs.candidates)
           n    == Min(Len(e.immutable.candidates), Max(room, 0))
       IN [segs EXCEPT
             !.candidates = @ \o SubSeq(e.immutable.candidates, 1, n)]

RealtimeResultOf(candidate) ==
  LET r0 == [MakeEmptyResult EXCEPT
               !.key = candidate.key, !.value = candidate.value,
               !.wcost = candidate.wcost, !.lid = candidate.lid,
               !.rid = candidate.rid]
      r1 == SetTypesAndTokenAttributes(r0, {"REALTIME"}, {})
  IN [r1 EXCEPT !.candidate_attributes = @ \cup candidate.attributes]

RECURSIVE CopyRealtime(_, _, _)
CopyRealtime(cands, i, res) ==
  IF i > Len(cands) THEN res
  ELSE CopyRealtime(cands, i + 1, Append(res, RealtimeResultOf(cands[i])))

\* AggregateRealtimeConversion: <<segments', results'>>
AggregateRealtimeConversion(ptypes, req, segs, e, res) ==
  IF "REALTIME" \notin ptypes THEN <<segs, res>>
  ELSE
  LET res1 == IF req.use_actual_converter_for_realtime_conversion
              THEN PushBackTopConversionResult(segs, e, res) ELSE res
      prev_candidates_size == Len(segs.candidates)
      prev_max_prediction_candidates_size ==
        segs.max_prediction_candidates_size
      realtime_candidates_size ==
        GetRealtimeCandidateMaxSize(
          segs, IsMixedConversionEnabled(req),
          SizeSub(prev_max_prediction_candidates_size, prev_candidates_size))
      segs1 == [segs EXCEPT !.max_prediction_candidates_size =
                  SizeAdd(prev_candidates_size, realtime_candidates_size)]
      segs2 == ConvertForRequest(segs1, e)
  IN
  IF realtime_candidates_size = 0 THEN <<segs, res1>>
  ELSE IF ~e.immutable.ok \/ prev_candidates_size >= Len(segs2.candidates)
  THEN <<segs2, res1>>
  ELSE <<[segs2 EXCEPT
            !.candidates = SubSeq(@, 1, prev_candidates_size),
            !.max_prediction_candidates_size =
               prev_max_prediction_candidates_size],
         CopyRealtime(SubSeq(segs2.candidates, prev_candidates_size + 1,
                             Len(segs2.candidates)), 1, res1)>>

----------------------------------------------------------------------------
(* Unigram aggregator *)

AggregateUnigramCandidate(req, segs, e, res) ==
  LET cutoff_threshold == GetCandidateCutoffThreshold(segs)
      prev_results_size == Len(res)
      looked == GetPredictiveResults(e.dictionary, <<>>, req, segs,
                                     {"UNIGRAM"}, cutoff_threshold, res)
      unigram_results_size == Len(looked) - prev_results_size
  IN IF unigram_results_size >= cutoff_threshold
     THEN SubSeq(looked, 1, prev_results_size)
     ELSE looked

MaybeRedundant(reference, target) == StartsWith(target, reference)

kDeleteTrialNum == 5
kDoNotDeleteNum == 5

Swap(v, a, b) == [v EXCEPT ![a] = v[b], ![b] = v[a]]

\* std::min_element with ResultWCostLess over [lo, hi): the first minimum.
MinElement(v, lo, hi) ==
  CHOOSE m \in lo..(hi - 1) :
    /\ \A j \in lo..(hi - 1) : v[m].wcost <= v[j].wcost
    /\ \A j \in lo..(m - 1) : v[j].wcost > v[m].wcost

\* The inner loop of the redundancy pass: iter runs over [iter, max_iter).
RECURSIVE SwapOutRedundant(_, _, _, _)
SwapOutRedundant(v, reference_value, iter, max_iter) ==
  IF iter >= max_iter THEN <<v, max_iter>>
  ELSE IF MaybeRedundant(reference_value, v[iter].value)
  THEN SwapOutRedundant(Swap(v, iter, max_iter - 1), reference_value,
                        iter, max_iter - 1)
  ELSE SwapOutRedundant(v, reference_value, iter + 1, max_iter)

\* The outer loop: <<vector, min_iter, max_iter>>, iterators as 1-based
\* positions, max_iter exclusive.
RECURSIVE DeleteTrials(_, _, _, _)
DeleteTrials(v, i, min_iter, max_iter) ==
  IF i >= kDeleteTrialNum \/ min_iter = max_iter
  THEN <<v, min_iter, max_iter>>
  ELSE LET v1 == Swap(v, min_iter, MinElement(v, min_iter, max_iter))
           out == SwapOutRedundant(v1, v1[min_iter].value, min_iter + 1,
                                   max_iter)
       IN DeleteTrials(out[1], i + 1, min_iter + 1, out[2])

PartialSortAnyChoices(v, first, k) ==
  { S \in SUBSET (first..Len(v)) : Cardinality(S) = k }

\* std::partial_sort(first, first + k, last): the k smallest of the range in
\* ascending wcost order.  Which of several equal-cost results end up among
\* the k is not specified; the set holds every admissible choice of the k
\* positions.
PartialSortChoices(v, first, k) ==
  LET range == first..Len(v) IN
  { S \in SUBSET range :
      /\ Cardinality(S) = k
      /\ \A a \in S : \A b \in range \ S : v[a].wcost <= v[b].wcost }

RECURSIVE SortedByWCost(_, _)
SortedByWCost(v, S) ==
  IF S = {} THEN <<>>
  ELSE LET m == CHOOSE a \in S :
                  \A b \in S : \/ v[a].wcost < v[b].wcost
                               \/ (v[a].wcost = v[b].wcost /\ a <= b)
       IN <<v[m]>> \o SortedByWCost(v, S \ {m})

\* AggregateUnigramCandidateForMixedConversion: the set of vectors the call
\* may leave in |results|.
AggregateUnigramCandidateForMixedConversion(req, segs, e, res) ==
  LET raw_result == GetPredictiveResults(e.dictionary, <<>>, req, segs,
                                         {"UNIGRAM"},
                                         kPredictionMaxResultsSize, <<>>)
      trial    == DeleteTrials(raw_result, 0, 1, Len(raw_result) + 1)
      v        == trial[1]
      max_iter == trial[3]
  IN IF (Len(v) + 1) - max_iter >= kDoNotDeleteNum
     THEN { res \o SubSeq(v, 1, max_iter - 1) \o SortedByWCost(v, S) :
              S \in PartialSortChoices(v, max_iter, kDoNotDeleteNum) }
     ELSE { res \o v }

\* AggregateUnigramPrediction: the set of possible result vectors.
AggregateUnigramPrediction(ptypes, req, segs, e, res) ==
  IF "UNIGRAM" \notin ptypes THEN {res}
  ELSE IF ~IsMixedConversionEnabled(req)
  THEN {AggregateUnigramCandidate(req, segs, e, res)}
  ELSE AggregateUnigramCandidateForMixedConversion(req, segs, e, res)

----------------------------------------------------------------------------
(* Bigram aggregator *)

ScriptOf(c) ==
  CASE c \in Hiragana -> "HIRAGANA"
    [] c \in Katakana -> "KATAKANA"
    [] c \in Kanji    -> "KANJI"
    [] c \in Digits \cup FullDigits -> "NUMBER"
    [] OTHER          -> "ALPHABET"

\* Util::GetScriptType of a string: the script all its characters share.
GetScriptType(s) ==
  IF s = <<>> THEN "UNKNOWN_SCRIPT"
  ELSE IF \A i \in 1..Len(s) : ScriptOf(s[i]) = ScriptOf(s[1])
  THEN ScriptOf(s[1]) ELSE "UNKNOWN_SCRIPT"

Kill(r) == [r EXCEPT !.types = NO_PREDICTION]

CheckBigramResultCostRuleFirst(history_token, history_ctype, last_history_ctype, e, r) ==
  LET key   == DropBytes(r.key, Size(history_token.key))
      value == DropBytes(r.value, Size(history_token.value))
      ctype == GetScriptType(SubSeq(value, 1, 1))
  IN
  IF key = <<>> \/ value = <<>> THEN Kill(r)
  ELSE IF ctype # "KANJI" /\ history_token.cost > r.wcost THEN Kill(r)
  ELSE IF history_ctype = "KANJI" /\ ctype = "KATAKANA" THEN r
  ELSE IF /\ ctype = last_history_ctype
          /\ \/ ctype = "HIRAGANA"
             \/ (ctype = "KATAKANA" /\ CharsLen(r.key) <= 5)
  THEN Kill(r)
  ELSE IF ctype = "KANJI" /\ CharsLen(value) >= 2 THEN r
  ELSE IF ~FindValue(e.dictionary, 1, key, value)[1] THEN Kill(r)
  ELSE r

CheckBigramResult(history_token, history_ctype, last_history_ctype, e, r) ==
  LET key   == DropBytes(r.key, Size(history_token.key))
      value == DropBytes(r.value, Size(history_token.value))
      ctype == GetScriptType(SubSeq(value, 1, 1))
  IN
  IF key = <<>> \/ value = <<>> THEN Kill(r)
  ELSE IF history_ctype = "KANJI" /\ ctype = "KATAKANA" THEN r
  ELSE IF ctype # "KANJI" /\ history_token.cost > r.wcost THEN Kill(r)
  ELSE IF /\ ctype = last_history_ctype
          /\ \/ ctype = "HIRAGANA"
             \/ (ctype = "KATAKANA" /\ CharsLen(r.key) <= 5)
  THEN Kill(r)
  ELSE IF ctype = "KANJI" /\ CharsLen(value) >= 2 THEN r
  ELSE IF ~FindValue(e.dictionary, 1, key, value)[1] THEN Kill(r)
  ELSE r

AddBigramResultsFromHistory(history_key, history_value, req, segs, e, res) ==
  LET found == FindValue(e.dictionary, 1, history_key, history_value)
      cutoff_threshold == GetCandidateCutoffThreshold(segs)
      prev_results_size == Len(res)
      looked == GetPredictiveResultsForBigram(
                  e.dictionary, history_key, history_value, req, segs,
                  {"BIGRAM"}, cutoff_threshold, res)
      bigram_results_size == Len(looked) - prev_results_size
      history_value_size == CharsLen(history_value)
      history_ctype == GetScriptType(history_value)
      last_history_ctype ==
        GetScriptType(SubSeq(history_value, history_value_size,
                             history_value_size))
  IN
  IF ~found[1] THEN res
  ELSE IF bigram_results_size >= cutoff_threshold
  THEN SubSeq(looked, 1, prev_results_size)
  ELSE IF history_value_size = 0 THEN looked
  ELSE [i \in 1..Len(looked) |->
          IF i <= prev_results_size THEN looked[i]
          ELSE CheckBigramResult(found[2], history_ctype, last_history_ctype,
                                 e, looked[i])]

AggregateBigramPrediction(ptypes, req, segs, e, res) ==
  IF "BIGRAM" \notin ptypes THEN res
  ELSE LET h == GetHistoryKeyAndValue(segs) IN
       IF ~h[1] THEN res
       ELSE AddBigramResultsFromHistory(h[2], h[3], req, segs, e, res)

----------------------------------------------------------------------------
(* Suffix aggregator and the zero-query tables *)

\* Util::FullWidthToHalfWidth and Util::HalfWidthAsciiToFullWidthAscii,
\* character by character.
HalfOf(c) ==
  CASE c = "F0" -> "0" [] c = "F1" -> "1" [] c = "F2" -> "2"
    [] c = "F-" -> "-"
    [] c = "Fa" -> "a" [] c = "Fb" -> "b" [] c = "Fc" -> "c"
    [] c = "FA" -> "A" [] c = "FB" -> "B" [] c = "FC" -> "C"
    [] OTHER -> c

FullOf(c) ==
  CASE c = "0" -> "F0" [] c = "1" -> "F1" [] c = "2" -> "F2"
    [] c = "-" -> "F-"
    [] c = "a" -> "Fa" [] c = "b" -> "Fb" [] c = "c" -> "Fc"
    [] c = "A" -> "FA" [] c = "B" -> "FB" [] c = "C" -> "FC"
    [] OTHER -> c

FullWidthToHalfWidth(s) == [i \in 1..Len(s) |-> HalfOf(s[i])]
HalfWidthAsciiToFullWidthAscii(s) == [i \in 1..Len(s) |-> FullOf(s[i])]

\* NumberUtil::IsArabicNumber: half- or full-width decimal digits only.
IsArabicNumberAnyNumeral(s) == s # <<>>

IsArabicNumber(s) ==
  /\ s # <<>>
  /\ \A i \in 1..Len(s) : s[i] \in Digits \cup FullDigits

\* GetNumberHistory: <<found, number_key>>
GetNumberHistory(segs) ==
  IF Len(segs.history) = 0 THEN <<FALSE, <<>>>>
  ELSE LET history_value ==
             segs.history[Len(segs.history)].candidates[1].value IN
       IF ~IsArabicNumber(history_value) THEN <<FALSE, <<>>>>
       ELSE <<TRUE, FullWidthToHalfWidth(history_value)>>

\* One ZeroQueryEntry under the caller's emoji carriers: the values emitted
\* for it (none or one), as <<value, type>> pairs.
ZeroQueryEntryResults(req, zq_entry) ==
  IF zq_entry.type # "ZERO_QUERY_EMOJI"
  THEN << <<zq_entry.value, zq_entry.type>> >>
  ELSE IF /\ "UNICODE_EMOJI" \in req.available_emoji_carrier
          /\ "EMOJI_UNICODE" \in zq_entry.emoji_type
  THEN << <<zq_entry.value, zq_entry.type>> >>
  ELSE IF \/ /\ "DOCOMO_EMOJI" \in req.available_emoji_carrier
             /\ "EMOJI_DOCOMO" \in zq_entry.emoji_type
          \/ /\ "SOFTBANK_EMOJI" \in req.available_emoji_carrier
             /\ "EMOJI_SOFTBANK" \in zq_entry.emoji_type
          \/ /\ "KDDI_EMOJI" \in req.available_emoji_carrier
             /\ "EMOJI_KDDI" \in zq_entry.emoji_type
  THEN << <<zq_entry.emoji_android_pua, zq_entry.type>> >>
  ELSE <<>>

RECURSIVE ZeroQueryEntries(_, _, _)
ZeroQueryEntries(req, entries, i) ==
  IF i > Len(entries) THEN <<>>
  ELSE ZeroQueryEntryResults(req, entries[i])
         \o ZeroQueryEntries(req, entries, i + 1)

\* GetZeroQueryCandidatesForKey over a sorted table of [key, entries]
\* records: the candidates of the record whose key is |key|, if any.
GetZeroQueryCandidatesForKey(req, key, table) ==
  IF \E k \in 1..Len(table) : table[k].key = key
  THEN LET rule == table[CHOOSE k \in 1..Len(table) : table[k].key = key]
       IN ZeroQueryEntries(req, rule.entries, 1)
  ELSE <<>>

kSuffixPenalty == 10

RECURSIVE AppendZeroQueryToResults(_, _, _, _, _)
AppendZeroQueryToResults(candidates, i, lid, rid, res) ==
  IF i > Len(candidates) THEN res
  ELSE LET r0 == SetTypesAndTokenAttributes(MakeEmptyResult, {"SUFFIX"}, {})
           r1 == SetSourceInfoForZeroQuery(r0, candidates[i][2])
           r2 == [r1 EXCEPT !.key = candidates[i][1],
                            !.value = candidates[i][1],
                            !.wcost = (i - 1) * kSuffixPenalty,
                            !.lid = lid, !.rid = rid]
       IN AppendZeroQueryToResults(candidates, i + 1, lid, rid,
                                   Append(res, r2))

\* AggregateNumberZeroQueryPrediction: <<added, results'>>
AggregateNumberZeroQueryPrediction(req, segs, e, res) ==
  LET number == GetNumberHistory(segs)
      candidates_for_number_key ==
        GetZeroQueryCandidatesForKey(req, number[2], e.kZeroQueryNum_data)
      default_candidates_for_number ==
        GetZeroQueryCandidatesForKey(req, <<"default">>,
                                     e.kZeroQueryNum_data)
  IN IF ~number[1] THEN <<FALSE, res>>
     ELSE <<TRUE,
            AppendZeroQueryToResults(
              default_candidates_for_number, 1,
              e.counter_suffix_word_id, e.counter_suffix_word_id,
              AppendZeroQueryToResults(
                candidates_for_number_key, 1,
                e.counter_suffix_word_id, e.counter_suffix_word_id, res))>>

\* AggregateZeroQueryPrediction: <<added, results'>>
AggregateZeroQueryPrediction(req, segs, e, res) ==
  IF Len(segs.history) = 0 THEN <<FALSE, res>>
  ELSE LET history_value ==
             segs.history[Len(segs.history)].candidates[1].value
           candidates ==
             GetZeroQueryCandidatesForKey(req, history_value,
                                          e.kZeroQueryData_data)
       IN IF candidates = <<>> THEN <<FALSE, res>>
          ELSE <<TRUE, AppendZeroQueryToResults(candidates, 1, 0, 0, res)>>

AggregateSuffixPredictionReturnsAfterZeroQuery(ptypes, req, segs, e, res) ==
  IF "SUFFIX" \notin ptypes THEN res
  ELSE
  LET is_zero_query == (segs.key = <<>>)
      number == AggregateNumberZeroQueryPrediction(req, segs, e, res)
      zero == AggregateZeroQueryPrediction(req, segs, e, res)
  IN IF is_zero_query /\ number[1] THEN number[2]
     ELSE IF is_zero_query /\ zero[1] THEN zero[2]
     ELSE GetPredictiveResults(e.suffix_dictionary, <<>>, req, segs,
                               {"SUFFIX"}, GetCandidateCutoffThreshold(segs), res)

AggregateSuffixPrediction(ptypes, req, segs, e, res) ==
  IF "SUFFIX" \notin ptypes THEN res
  ELSE
  LET is_zero_query == (segs.key = <<>>)
      number == AggregateNumberZeroQueryPrediction(req, segs, e, res)
      res1 == IF is_zero_query
              THEN AggregateZeroQueryPrediction(req, segs, e, res)[2]
              ELSE res
  IN IF is_zero_query /\ number[1] THEN number[2]
     ELSE GetPredictiveResults(e.suffix_dictionary, <<>>, req, segs,
                               {"SUFFIX"}, GetCandidateCutoffThreshold(segs),
                               res1)

----------------------------------------------------------------------------
(* English aggregator *)

IsUpperAscii(s) == \A i \in 1..Len(s) : s[i] \in UpperAscii
IsLowerAscii(s) == \A i \in 1..Len(s) : s[i] \in LowerAscii
IsCapitalizedAscii(s) ==
  /\ s # <<>>
  /\ s[1] \in UpperAscii
  /\ IsLowerAscii(Tail(s))

LowerChar(c) ==
  CASE c = "A" -> "a" [] c = "B" -> "b" [] c = "C" -> "c" [] OTHER -> c
UpperChar(c) ==
  CASE c = "a" -> "A" [] c = "b" -> "B" [] c = "c" -> "C" [] OTHER -> c

LowerString(s) == [i \in 1..Len(s) |-> LowerChar(s[i])]
UpperString(s) == [i \in 1..Len(s) |-> UpperChar(s[i])]
CapitalizeString(s) ==
  [i \in 1..Len(s) |-> IF i = 1 THEN UpperChar(s[i]) ELSE LowerChar(s[i])]

\* Rewrites the values of the results after position |from|.
MapValues(res, from, how) ==
  [i \in 1..Len(res) |->
     IF i <= from THEN res[i]
     ELSE [res[i] EXCEPT !.value =
             IF how = "upper" THEN UpperString(@)
             ELSE IF how = "capitalize" THEN CapitalizeString(@)
             ELSE HalfWidthAsciiToFullWidthAscii(@)]]

GetPredictiveResultsForEnglish(dictionary, history_key, req, segs, prediction_types, lookup_limit, res) ==
  IF ~req.has_composer
  THEN GetPredictiveResults(dictionary, history_key, req, segs,
                            prediction_types, lookup_limit, res)
  ELSE
  LET input_key == req.composer_query
      prev_results_size == Len(res)
      key == LowerString(input_key)
      lowered == LookupPredictive(dictionary, 1, key,
                                  Callback(prediction_types, lookup_limit,
                                           Size(key), NullChars, FALSE), res)
      cased ==
        IF IsUpperAscii(input_key)
        THEN MapValues(lowered, prev_results_size, "upper")
        ELSE IF IsCapitalizedAscii(input_key)
        THEN MapValues(lowered, prev_results_size, "capitalize")
        ELSE LookupPredictive(dictionary, 1, input_key,
                              Callback(prediction_types, lookup_limit,
                                       Size(input_key), NullChars, FALSE), res)
  IN IF Size(input_key) < 2 THEN res
     ELSE IF req.input_mode = "FULL_ASCII"
     THEN MapValues(cased, prev_results_size, "full_width")
     ELSE cased

AggregateEnglishPrediction(ptypes, req, segs, e, res) ==
  IF "ENGLISH" \notin ptypes THEN res
  ELSE LET cutoff_threshold == GetCandidateCutoffThreshold(segs)
           prev_results_size == Len(res)
           looked == GetPredictiveResultsForEnglish(
                       e.dictionary, <<>>, req, segs, {"ENGLISH"},
                       cutoff_threshold, res)
       IN IF Len(looked) - prev_results_size >= cutoff_threshold
          THEN SubSeq(looked, 1, prev_results_size)
          ELSE looked

----------------------------------------------------------------------------
(* Typing-correction aggregator *)

AddCost(res, from, cost) ==
  [i \in 1..Len(res) |->
     IF i <= from THEN res[i] ELSE [res[i] EXCEPT !.wcost = @ + cost]]

RECURSIVE TypingCorrectionLoop(_, _, _, _, _, _, _)
TypingCorrectionLoop(dictionary, history_key, queries, query_index, prediction_types, lookup_limit, res) ==
  IF query_index > Len(queries) THEN res
  ELSE
  LET query == queries[query_index]
      input_key == history_key \o query.base
      previous_results_size == Len(res)
      looked == LookupPredictive(
                  dictionary, 1, input_key,
                  Callback(prediction_types, lookup_limit, Size(input_key),
                           SubsequentChars(query.expanded), FALSE), res)
      costed == AddCost(looked, previous_results_size, query.cost)
      limit1 == SizeSub(lookup_limit, Len(looked) - previous_results_size)
  IN IF limit1 <= 0 THEN costed
     ELSE TypingCorrectionLoop(dictionary, history_key, queries,
                               query_index + 1, prediction_types, limit1,
                               costed)

GetPredictiveResultsUsingTypingCorrection(dictionary, history_key, req, segs, prediction_types, lookup_limit, res) ==
  IF ~req.has_composer THEN res
  ELSE TypingCorrectionLoop(dictionary, history_key,
                            req.type_corrected_queries, 1, prediction_types,
                            lookup_limit, res)

kTypingCorrectionMaxPrevResults == 10000

AggregateTypeCorrectingPrediction(ptypes, req, segs, e, res) ==
  IF "TYPING_CORRECTION" \notin ptypes THEN res
  ELSE LET prev_results_size == Len(res)
           cutoff_threshold == GetCandidateCutoffThreshold(segs)
           looked == GetPredictiveResultsUsingTypingCorrection(
                       e.dictionary, <<>>, req, segs, {"TYPING_CORRECTION"},
                       cutoff_threshold, res)
       IN IF prev_results_size > kTypingCorrectionMaxPrevResults THEN res
          ELSE IF Len(looked) - prev_results_size >= cutoff_threshold
          THEN SubSeq(looked, 1, prev_results_size)
          ELSE looked

----------------------------------------------------------------------------
(* Cost assignment *)

TransitionCost(e, rid, lid) == e.connector[rid][lid]
SuffixPenalty(e, rid) == e.suffix_penalty[rid]

GetLMCost(e, r, rid) ==
  LET cost1 == TransitionCost(e, rid, r.lid)
      cost2 == TransitionCost(e, 0, r.lid)
      lm_cost == Min(cost1, cost2) + r.wcost
  IN IF "REALTIME" \notin r.types
     THEN lm_cost + SuffixPenalty(e, r.rid) ELSE lm_cost

IsAggressiveSuggestion(query_len, key_len, cost, is_suggestion, total_candidates_size) ==
  /\ is_suggestion
  /\ total_candidates_size >= 10
  /\ key_len >= 8
  /\ cost >= 5000
  /\ query_len <= (4 * key_len) \div 10

\* 100 * 500 * ln(1 + n), rounded, for n = 0 .. 12.
LogTable ==
  <<0, 34657, 54931, 69315, 80472, 89588, 97296, 103972, 109861, 115129,
    119895, 124245, 128247>>

\* (int)(cost - kCostFactor * log(1.0 + n)): the double is truncated
\* towards zero.
LengthBonusCost(cost, n) ==
  LET v == 100 * cost - LogTable[n + 1] IN
  IF v >= 0 THEN v \div 100 ELSE -((-v) \div 100)

\* rid of the last history candidate, 0 (BOS) without one.
HistoryRid(segs) ==
  IF /\ Len(segs.history) > 0
     /\ Len(segs.history[Len(segs.history)].candidates) > 0
  THEN segs.history[Len(segs.history)].candidates[1].rid ELSE 0

\* The loop of SetPredictionCost from position i on:
\* <<results, realtime_cost_min, realtime_top_result>>, the last being a
\* position of the vector, 0 for NULL.
RECURSIVE PredictionCostLoop(_, _, _, _, _, _)
PredictionCostLoop(segs, e, res, i, realtime_cost_min, realtime_top_result) ==
  IF i > Len(res) THEN <<res, realtime_cost_min, realtime_top_result>>
  ELSE
  LET r == res[i]
      input_key == segs.key
      h == GetHistoryKeyAndValue(segs)
      bigram_key_len == CharsLen(h[2] \o input_key)
      unigram_key_len == CharsLen(input_key)
      cost == GetLMCost(e, r, HistoryRid(segs))
      query_len == IF "BIGRAM" \in r.types
                   THEN bigram_key_len ELSE unigram_key_len
      key_len == CharsLen(r.key)
      new_cost == LengthBonusCost(cost, Max(0, key_len - query_len))
  IN
  IF "REALTIME_TOP" \in r.types
  THEN PredictionCostLoop(segs, e, res, i + 1, realtime_cost_min, i)
  ELSE IF IsAggressiveSuggestion(query_len, key_len, cost,
                                 segs.request_type = "SUGGESTION", Len(res))
  THEN PredictionCostLoop(segs, e, [res EXCEPT ![i].cost = kInfinity], i + 1,
                          realtime_cost_min, realtime_top_result)
  ELSE PredictionCostLoop(
         segs, e, [res EXCEPT ![i].cost = new_cost], i + 1,
         IF /\ "REALTIME" \in r.types
            /\ new_cost < realtime_cost_min
            /\ Size(r.key) = Size(input_key)
         THEN new_cost ELSE realtime_cost_min,
         realtime_top_result)

SetPredictionCostNoTopDiscount(segs, e, res) ==
  LET out == PredictionCostLoop(segs, e, res, 1, kInfinity, 0) IN
  IF out[3] = 0 THEN out[1]
  ELSE [out[1] EXCEPT ![out[3]].cost = Max(0, out[2])]

SetPredictionCost(segs, e, res) ==
  LET out == PredictionCostLoop(segs, e, res, 1, kInfinity, 0) IN
  IF out[3] = 0 THEN out[1]
  ELSE [out[1] EXCEPT ![out[3]].cost = Max(0, out[2] - 10)]

kBadSuggestionPenalty == 3453
kNotExactPenalty == 1956
kDefaultTransitionCost == 1347
kBigramBonus == 800

IsBadSuggestion(e, value) == value \in e.bad_suggestions

SetLMCost(segs, e, res) ==
  LET has_history == /\ Len(segs.history) > 0
                     /\ Len(segs.history[Len(segs.history)].candidates) > 0
      rid == HistoryRid(segs)
      prev_cost0 == IF has_history
                    THEN segs.history[Len(segs.history)].candidates[1].cost
                    ELSE 0
      prev_cost == IF has_history /\ prev_cost0 = 0 THEN 5000 ELSE prev_cost0
      input_key_len == CharsLen(segs.key)
      CostOf(r) ==
        GetLMCost(e, r, rid)
        + (IF IsBadSuggestion(e, r.value) THEN kBadSuggestionPenalty ELSE 0)
        + (IF /\ r.types \cap {"UNIGRAM", "TYPING_CORRECTION"} # {}
              /\ CharsLen(r.key) > input_key_len
           THEN kNotExactPenalty ELSE 0)
        + (IF "BIGRAM" \in r.types
           THEN kDefaultTransitionCost - kBigramBonus - prev_cost ELSE 0)
  IN [i \in 1..Len(res) |-> [res[i] EXCEPT !.cost = CostOf(res[i])]]

kKeyExpansionPenalty == 1151

ApplyPenaltyForKeyExpansion(segs, res) ==
  IF segs.conversion_segments_size = 0 THEN res
  ELSE [i \in 1..Len(res) |->
          IF "TYPING_CORRECTION" \in res[i].types THEN res[i]
          ELSE IF ~StartsWith(res[i].key, segs.key)
          THEN [res[i] EXCEPT !.cost = @ + kKeyExpansionPenalty]
          ELSE res[i]]

SetCost(req, segs, e, res) ==
  ApplyPenaltyForKeyExpansion(
    segs,
    IF IsMixedConversionEnabled(req)
    THEN SetLMCost(segs, e, res)
    ELSE SetPredictionCost(segs, e, res))

----------------------------------------------------------------------------
(* Mis-spelled de-duplication *)

HiraganaOf(c) == CASE c = "k1" -> "h1" [] c = "k2" -> "h2" [] OTHER -> c
KatakanaToHiragana(s) == [i \in 1..Len(s) |-> HiraganaOf(s[i])]

GetMissSpelledPosition(key, value) ==
  LET hiragana_value == KatakanaToHiragana(value)
      common == Min(Len(hiragana_value), Len(key))
  IN IF GetScriptType(hiragana_value) # "HIRAGANA" THEN CharsLen(key)
     ELSE IF \E p \in 1..common : hiragana_value[p] # key[p]
     THEN (CHOOSE p \in 1..common :
             /\ hiragana_value[p] # key[p]
             /\ \A q \in 1..(p - 1) : hiragana_value[q] = key[q]) - 1
     ELSE Len(key)

IsSpellingCorrection(r) == "SPELLING_CORRECTION" \in r.candidate_attributes

RemoveForOneSparesItself(request_key_len, res, i) ==
  LET others == {j \in 1..Len(res) : j # i /\ ~IsSpellingCorrection(res[j])}
      same_key_index   == {j \in others : res[j].key = res[i].key}
      same_value_index == {j \in others : res[j].value = res[i].value}
  IN [j \in 1..Len(res) |->
        IF \/ (j \in same_key_index)
           \/ (j = i /\ same_value_index # {})
        THEN Kill(res[j]) ELSE res[j]]

\* One spelling-corrected result at position i put through the decision
\* table.
RemoveForOne(request_key_len, res, i) ==
  LET others == {j \in 1..Len(res) : j # i /\ ~IsSpellingCorrection(res[j])}
      same_key_index   == {j \in others : res[j].key = res[i].key}
      same_value_index == {j \in others : res[j].value = res[i].value}
      kill_self ==
        \/ same_value_index # {}
        \/ /\ same_key_index # {}
           /\ request_key_len
                <= GetMissSpelledPosition(res[i].key, res[i].value)
  IN [j \in 1..Len(res) |->
        IF \/ (j \in same_key_index)
           \/ (j = i /\ kill_self)
        THEN Kill(res[j]) ELSE res[j]]

RECURSIVE RemoveLoop(_, _, _, _)
RemoveLoop(request_key_len, res, i, spelling_correction_size) ==
  IF i > Len(res) THEN res
  ELSE IF ~IsSpellingCorrection(res[i])
  THEN RemoveLoop(request_key_len, res, i + 1, spelling_correction_size)
  ELSE IF spelling_correction_size - 1 = 0 THEN res
  ELSE RemoveLoop(request_key_len, RemoveForOne(request_key_len, res, i),
                  i + 1, spelling_correction_size - 1)

kSpellingCorrectionSize == 5

RemoveMissSpelledCandidates(request_key_len, res) ==
  IF Len(res) <= 1 THEN res
  ELSE RemoveLoop(request_key_len, res, 1, kSpellingCorrectionSize)

RemovePrediction(req, segs, res) ==
  IF ~IsMixedConversionEnabled(req)
  THEN RemoveMissSpelledCandidates(CharsLen(segs.key), res)
  ELSE res

----------------------------------------------------------------------------
(* Emission: AddPredictionToCandidates *)

kSuffixEmissionCap == 20

PopHeapAnyOrder(res, remaining) == remaining

\* std::pop_heap with ResultCostLess: the positions a pop may deliver, i.e.
\* the not yet popped results of minimum cost (the order among results of
\* equal cost is the heap's business).
PopHeap(res, remaining) ==
  {i \in remaining : \A j \in remaining : res[i].cost <= res[j].cost}

EmitBreaksNoInfinityCheck(added, size, cost) == added >= size

\* `if (added >= size || result.cost >= kInfinity) break;'
EmitBreaks(added, size, cost) == added >= size \/ cost >= kInfinity

FilteredAsBadWhateverTheKey(mixed_conversion, input_key, e, r) ==
  IsBadSuggestion(e, r.value)

\* `!(mixed_conversion && (result.key == input_key)) &&
\*   suggestion_filter_->IsBadSuggestion(result.value)'
FilteredAsBad(mixed_conversion, input_key, e, r) ==
  /\ ~(mixed_conversion /\ r.key = input_key)
  /\ IsBadSuggestion(e, r.value)

IsTrivialNever(mixed_conversion, input_key, exact_bigram_key, r) == FALSE

\* "don't suggest exactly the same candidate as key"
IsTrivial(mixed_conversion, input_key, exact_bigram_key, r) ==
  /\ ~mixed_conversion
  /\ "REALTIME" \notin r.types
  /\ \/ ("BIGRAM" \in r.types /\ exact_bigram_key = r.value)
     \/ ("BIGRAM" \notin r.types /\ input_key = r.value)

\* key and value as emitted: a BIGRAM result loses the history prefixes.
EmittedKey(history_key, r) ==
  IF "BIGRAM" \in r.types THEN DropBytes(r.key, Size(history_key)) ELSE r.key

EmittedValueNoStrip(history_value, r) == r.value

EmittedValue(history_value, r) ==
  IF "BIGRAM" \in r.types THEN DropBytes(r.value, Size(history_value))
  ELSE r.value

NeverSeen(seen, value) == FALSE

\* `!seen.insert(value).second'
AlreadySeen(seen, value) == value \in seen

IsLateSpellingCorrection(r, key, value, input_key) ==
  /\ IsSpellingCorrection(r)
  /\ key # input_key
  /\ CharsLen(input_key) <= GetMissSpelledPosition(key, value) + 1

\* `result.types == SUFFIX && added_suffix++ >= 20', added_suffix being the
\* value before the increment.
SuffixCapReachedOffByMany(r, added_suffix) ==
  r.types = {"SUFFIX"} /\ added_suffix >= kSuffixEmissionCap + 2

SuffixCapReached(r, added_suffix) ==
  r.types = {"SUFFIX"} /\ added_suffix >= kSuffixEmissionCap

\* The attributes of the candidate pushed for a result.
CandidateAttributes(req, r, cursor_at_tail) ==
  LET a0 == r.candidate_attributes
      a1 == IF \/ ("SPELLING_CORRECTION" \notin a0 /\ IsLatinInputMode(req))
               \/ "SUFFIX" \in r.types
            THEN a0 \cup {"NO_VARIANTS_EXPANSION", "NO_EXTRA_DESCRIPTION"}
            ELSE a0
      a2 == IF "PARTIALLY_KEY_CONSUMED" \in a1 /\ cursor_at_tail
            THEN a1 \cup {"AUTO_PARTIAL_SUGGESTION"} ELSE a1
  IN IF "TYPING_CORRECTION" \in r.types
     THEN a2 \cup {"TYPING_CORRECTION"} ELSE a2

\* The candidate pushed for a result.
MakeCandidate(req, r, key, value, cursor_at_tail) ==
  [key |-> key, value |-> value, lid |-> r.lid, rid |-> r.rid,
   wcost |-> r.wcost, cost |-> r.cost,
   attributes |-> CandidateAttributes(req, r, cursor_at_tail),
   source_info |-> r.source_info]

\* The locals of AddPredictionToCandidates before its loop.  |remaining| is
\* the heap, as the set of positions not yet popped; |emitted| remembers,
\* for each candidate pushed, the position of the result it was made from.
EmitBegin(segs, res) ==
  [size |-> Min(segs.max_prediction_candidates_size, Len(res)),
   added |-> 0, seen |-> {}, added_suffix |-> 0,
   remaining |-> 1..Len(res), broke |-> FALSE, emitted |-> <<>>]

\* One iteration of the loop on the popped result res[idx]:
\* <<emit', candidates pushed (none or one)>>.
EmitOne(req, segs, e, em, res, idx) ==
  LET r == res[idx]
      mixed_conversion == IsMixedConversionEnabled(req)
      input_key == segs.key
      h == GetHistoryKeyAndValue(segs)
      exact_bigram_key == h[2] \o input_key
      key   == EmittedKey(h[2], r)
      value == EmittedValue(h[3], r)
      cursor_at_tail == req.has_composer /\ req.composer_cursor_at_tail
      popped == [em EXCEPT !.remaining = @ \ {idx}]
      seen1  == [popped EXCEPT !.seen = @ \cup {value}]
      counted == IF r.types = {"SUFFIX"}
                 THEN [seen1 EXCEPT !.added_suffix = @ + 1] ELSE seen1
  IN
  IF EmitBreaks(em.added, em.size, r.cost)
  THEN <<[popped EXCEPT !.broke = TRUE], <<>>>>
  ELSE IF r.types = NO_PREDICTION THEN <<popped, <<>>>>
  ELSE IF FilteredAsBad(mixed_conversion, input_key, e, r)
  THEN <<popped, <<>>>>
  ELSE IF IsTrivial(mixed_conversion, input_key, exact_bigram_key, r)
  THEN <<popped, <<>>>>
  ELSE IF AlreadySeen(em.seen, value) THEN <<popped, <<>>>>
  ELSE IF IsLateSpellingCorrection(r, key, value, input_key)
  THEN <<seen1, <<>>>>
  ELSE IF SuffixCapReached(r, em.added_suffix) THEN <<counted, <<>>>>
  ELSE <<[counted EXCEPT !.added = @ + 1, !.emitted = Append(@, idx)],
         <<MakeCandidate(req, r, key, value, cursor_at_tail)>> >>

\* `return added > 0;'
AddPredictionReturnValueAlwaysTrue(added) == added >= 0

AddPredictionReturnValue(added) == added > 0

----------------------------------------------------------------------------
(* The collaborators and the requests the model is run on *)

MaxPrevCandidates == 2
MaxSuffixTokens   == 22
MaxDirectResults  == 3

Tok(k, v, c, l, r, a) ==
  [key |-> k, value |-> v, cost |-> c, lid |-> l, rid |-> r,
   attributes |-> a]

Cand(k, v, w, c, l, r, a) ==
  [key |-> k, value |-> v, lid |-> l, rid |-> r, wcost |-> w, cost |-> c,
   attributes |-> a, source_info |-> {}]

K3        == <<"h1", "h2", "h3">>
HistKey   == <<"h4", "h5", "h4">>
HistValue == <<"j1">>
H5        == <<"h1", "h2", "h3", "h4", "h5">>

DictSmall ==
  << Tok(K3, K3, 100, 1, 1, {}),
     Tok(K3 \o <<"h4">>, <<"j1", "j2">>, 3000, 1, 1, {}),
     Tok(K3 \o <<"h4">>, <<"j2">>, 2000, 1, 2, {}),
     Tok(K3 \o <<"h5">>, <<"j1", "j2">>, 3500, 2, 1, {"USER_DICTIONARY"}),
     Tok(K3 \o <<"h5">>, <<"j2", "j2">>, 1500, 1, 1, {}),
     Tok(K3 \o <<"h1">>, <<"k2", "k2", "k1", "k2">>, 1200, 1, 1,
         {"SPELLING_CORRECTION"}),
     Tok(K3 \o <<"h2">>, <<"k1", "k2", "k1", "k2">>, 1300, 1, 1,
         {"SPELLING_CORRECTION"}),
     Tok(K3 \o <<"h2">>, <<"j2", "j1">>, 1400, 1, 1, {}),
     Tok(HistKey, HistValue, 1000, 1, 1, {}),
     Tok(HistKey \o K3, HistValue \o <<"k1", "k2">>, 2500, 1, 1, {}),
     Tok(HistKey \o K3 \o <<"h4">>, HistValue \o <<"j2">>, 2600, 1, 1, {}),
     Tok(HistKey \o K3 \o <<"h5">>, HistValue \o <<"h1">>, 500, 1, 1, {}),
     Tok(<<"a", "b">>, <<"a", "b">>, 700, 1, 1, {}),
     Tok(<<"a", "b", "c">>, <<"a", "b", "c">>, 800, 1, 1, {}),
     Tok(<<"a", "b", "a">>, <<"a", "b", "a">>, 900, 1, 1, {}) >>

LongTok(i) ==
  Tok(K3 \o <<"h1", "h1", "h1", "h1", H5[i]>>, <<"j1", "j1", H5[i]>>,
      6000 + i, 1, 1, {})

ExpandedTok(i) ==
  Tok(<<"h1", "h2", "h4", "h1", "h1", "h1", "h1", H5[i]>>,
      <<"j2", "j1", H5[i]>>, 5500 + i, 1, 1, {})

DictLarge ==
  DictSmall
    \o [i \in 1..5 |-> LongTok(i)]
    \o [i \in 1..3 |-> ExpandedTok(i)]
    \o << Tok(<<"h1", "h2", "h4">>, <<"j2", "j2", "j1">>, 900, 1, 1, {}) >>

SuffixTok(i) ==
  LET k == <<H5[(((i - 1) \div 5) % 5) + 1], H5[((i - 1) % 5) + 1]>>
  IN Tok(k, <<"j2">> \o k \o Rep("j1", (i - 1) \div 25), 10 * i, 1, 1, {})

SuffixDict(n) == [i \in 1..n |-> SuffixTok(i)]

ZeroQueryEntry(t, v, et, pua) ==
  [type |-> t, value |-> v, emoji_type |-> et, emoji_android_pua |-> pua]

ZeroQueryNumData ==
  << [key |-> <<"1", "2">>,
      entries |-> << ZeroQueryEntry("ZERO_QUERY_NUMBER_SUFFIX", <<"j2">>,
                                    {}, <<>>) >>],
     [key |-> <<"default">>,
      entries |-> << ZeroQueryEntry("ZERO_QUERY_NUMBER_SUFFIX", <<"j1">>,
                                    {}, <<>>) >>] >>

ZeroQueryData ==
  << [key |-> HistValue,
      entries |-> << ZeroQueryEntry("ZERO_QUERY_EMOTICON", <<"a", "-">>,
                                    {}, <<>>),
                     ZeroQueryEntry("ZERO_QUERY_EMOJI", <<"k1">>,
                                    {"EMOJI_UNICODE", "EMOJI_DOCOMO"},
                                    <<"k2">>) >>] >>

ConnectorZero   == [r \in 0..2 |-> [l \in 0..2 |-> 0]]
ConnectorVaried == [r \in 0..2 |-> [l \in 0..2 |-> 100 + 200 * r + 30 * l]]

ConverterOutput ==
  << [value |-> <<"j1">>, cost |-> 1500, lid |-> 1, rid |-> 2],
     [value |-> <<"k1">>, cost |-> 500, lid |-> 2, rid |-> 1] >>

ImmutableOutput(w) ==
  << Cand(K3, <<"k1", "k2", "k1">>, w, 0, 1, 1, {}),
     Cand(K3, <<"j1", "j2">>, 2800, 0, 1, 1, {}),
     Cand(<<"h1", "h2">>, <<"j2", "j1", "j1">>, 50, 0, 1, 1,
          {"PARTIALLY_KEY_CONSUMED"}) >>

Env(dictionary, n_suffix, connector, converter_ok, immutable_ok, w) ==
  [dictionary |-> dictionary,
   suffix_dictionary |-> SuffixDict(n_suffix),
   bad_suggestions |-> {<<"j2", "j2">>},
   connector |-> connector,
   suffix_penalty |-> [r \in 0..2 |-> 50 * r],
   converter |-> [ok |-> converter_ok, segments |-> ConverterOutput],
   immutable |-> [ok |-> immutable_ok, candidates |-> ImmutableOutput(w)],
   kZeroQueryNum_data |-> ZeroQueryNumData,
   kZeroQueryData_data |-> ZeroQueryData,
   counter_suffix_word_id |-> 2]

Request(mixed, zero_query, dictionary_suggest, realtime, actual, mode, expansion, typing) ==
  [mixed_conversion |-> mixed,
   FLAGS_enable_mixed_conversion |-> FALSE,
   zero_query_suggestion |-> zero_query,
   use_dictionary_suggest |-> dictionary_suggest,
   use_realtime_conversion |-> realtime,
   use_typing_correction |-> typing,
   FLAGS_enable_typing_correction |-> FALSE,
   FLAGS_enable_expansion_for_dictionary_predictor |-> expansion,
   has_composer |-> TRUE,
   input_mode |-> mode,
   composer_base |-> <<"h1", "h2">>,
   composer_expanded |-> {<<"h3">>, <<"h4">>},
   composer_query |-> <<"a", "b">>,
   composer_cursor_at_tail |-> TRUE,
   type_corrected_queries |->
     << [base |-> <<"h1", "h2">>, expanded |-> {<<"h4">>}, cost |-> 300] >>,
   use_actual_converter_for_realtime_conversion |-> actual,
   available_emoji_carrier |-> {"DOCOMO_EMOJI"}]

HistorySegment(k, v, rid, cost) ==
  [key |-> k, candidates |-> << Cand(k, v, 0, cost, 1, rid, {}) >>]

NoHistory     == <<>>
KanjiHistory  == << HistorySegment(HistKey, HistValue, 1, 0) >>
NumberHistory == << HistorySegment(<<"1", "2">>, <<"1", "2">>, 2, 4000) >>
FullWidthNumberHistory == << HistorySegment(<<"1", "2">>, <<"F1", "F2">>, 2, 4000) >>

PrevCandidates(n) ==
  [i \in 1..n |-> Cand(K3, <<"h5", H5[((i - 1) % 5) + 1]>>, 0, 10 * i, 1, 1,
                       {})]

Segments(request_type, key, history, n_prev, max_size) ==
  [null |-> FALSE, request_type |-> request_type,
   conversion_segments_size |-> 1, key |-> key,
   candidates |-> PrevCandidates(n_prev), history |-> history,
   max_prediction_candidates_size |-> max_size]

RequestTypes ==
  {"CONVERSION", "SUGGESTION", "PREDICTION", "PARTIAL_SUGGESTION",
   "PARTIAL_PREDICTION", "REVERSE_CONVERSION"}

----------------------------------------------------------------------------
(* Initial states *)

NoEmit ==
  [size |-> 0, added |-> 0, seen |-> {}, added_suffix |-> 0,
   remaining |-> {}, broke |-> FALSE, emitted |-> <<>>]

RECURSIVE MaybeRecordUsageStatsLoop(_, _, _)

ZeroQueryCategories ==
  {"ZERO_QUERY_NONE", "ZERO_QUERY_NUMBER_SUFFIX", "ZERO_QUERY_EMOTICON",
   "ZERO_QUERY_EMOJI", "ZERO_QUERY_BIGRAM", "ZERO_QUERY_SUFFIX"}

StatName(category) ==
  CASE category = "ZERO_QUERY_NONE" ->
         "CommitDictionaryPredictorZeroQueryTypeNone"
    [] category = "ZERO_QUERY_NUMBER_SUFFIX" ->
         "CommitDictionaryPredictorZeroQueryTypeNumberSuffix"
    [] category = "ZERO_QUERY_EMOTICON" ->
         "CommitDictionaryPredictorZeroQueryTypeEmoticon"
    [] category = "ZERO_QUERY_EMOJI" ->
         "CommitDictionaryPredictorZeroQueryTypeEmoji"
    [] category = "ZERO_QUERY_BIGRAM" ->
         "CommitDictionaryPredictorZeroQueryTypeBigram"
    [] category = "ZERO_QUERY_SUFFIX" ->
         "CommitDictionaryPredictorZeroQueryTypeSuffix"

StatNames == {StatName(c) : c \in ZeroQueryCategories}

NoStats == [name \in StatNames |-> 0]

IncrementCount(st, name) == [st EXCEPT ![name] = @ + 1]

MaybeRecordUsageStatsLoop(candidate, categories, st) ==
  IF categories = <<>> THEN st
  ELSE MaybeRecordUsageStatsLoop(
         candidate, Tail(categories),
         IF Head(categories) \in candidate.source_info
         THEN IncrementCount(st, StatName(Head(categories))) ELSE st)

MaybeRecordUsageStats(candidate, st) ==
  MaybeRecordUsageStatsLoop(
    candidate,
    <<"ZERO_QUERY_NONE", "ZERO_QUERY_NUMBER_SUFFIX", "ZERO_QUERY_EMOTICON",
      "ZERO_QUERY_EMOJI", "ZERO_QUERY_BIGRAM", "ZERO_QUERY_SUFFIX">>, st)

FinishIgnoringSegmentType(req, segs, st) ==
  IF segs.request_type = "REVERSE_CONVERSION" THEN st
  ELSE IF Len(segs.candidates) < 1 THEN st
  ELSE MaybeRecordUsageStats(segs.candidates[1], st)

Finish(req, segs, st) ==
  IF segs.request_type = "REVERSE_CONVERSION" THEN st
  ELSE IF Len(segs.candidates) < 1 THEN st
  ELSE IF segs.segment_type # "FIXED_VALUE" THEN st
  ELSE MaybeRecordUsageStats(segs.candidates[1], st)

Begin(req, segs, e, res, at) ==
  LET prediction_types ==
        IF at = "add" THEN GetPredictionTypes(req, segs) ELSE NO_PREDICTION
  IN
  /\ request = req
  /\ segments = segs
  /\ entry = segs
  /\ env = e
  /\ results = res
  /\ types = prediction_types
  /\ pc = at
  /\ emit = NoEmit
  /\ ret = "none"
  /\ stats = NoStats
  /\ state_ = ThreadInternalState
  /\ worker = NoWorker
  /\ os = "OS_LINUX"

\* PredictForRequest on the small dictionary, over the request types, the
\* realtime switches, both converters' outcomes and the segment's fill.
InitCore ==
  \E request_type \in RequestTypes \ {"REVERSE_CONVERSION"},
     mixed \in BOOLEAN, dictionary_suggest \in BOOLEAN,
     realtime \in BOOLEAN, actual \in BOOLEAN,
     converter_ok \in BOOLEAN, immutable_ok \in BOOLEAN,
     history \in {NoHistory, KanjiHistory},
     w \in {0, 3000},
     n_prev \in 0..MaxPrevCandidates,
     max_size \in {1, 2, 10} :
    Begin(Request(mixed, FALSE, dictionary_suggest, realtime, actual,
                  "HIRAGANA", FALSE, FALSE),
          Segments(request_type, K3, history, n_prev, max_size),
          Env(DictSmall, 0, ConnectorZero, converter_ok, immutable_ok, w),
          <<>>, "start")

\* Zero-query requests: an empty or a short key after a committed word or
\* number, with a populated suffix dictionary.
InitZeroQuery ==
  \E request_type \in {"SUGGESTION", "PREDICTION"},
     mixed \in BOOLEAN,
     key \in {<<>>, <<"h1">>},
     history \in {KanjiHistory, NumberHistory, FullWidthNumberHistory},
     n_suffix \in {3, MaxSuffixTokens},
     max_size \in {10, MaxSuffixTokens + 8} :
    Begin(Request(mixed, TRUE, TRUE, FALSE, FALSE, "HIRAGANA", FALSE, FALSE),
          Segments(request_type, key, history, 0, max_size),
          Env(DictSmall, n_suffix, ConnectorVaried, TRUE, TRUE, 3000),
          <<>>, "start")

\* The large dictionary: long keys (aggressive suggestions), ambiguity
\* expansion, typing correction.
InitLarge ==
  \E request_type \in {"SUGGESTION", "PREDICTION"},
     mixed \in BOOLEAN, realtime \in BOOLEAN, expansion \in BOOLEAN,
     typing \in BOOLEAN,
     history \in {NoHistory, KanjiHistory},
     connector \in {ConnectorZero, ConnectorVaried} :
    Begin(Request(mixed, FALSE, TRUE, realtime, TRUE, "HIRAGANA", expansion,
                  typing),
          Segments(request_type, K3, history, 0, MaxSuffixTokens + 8),
          Env(DictLarge, 0, connector, TRUE, TRUE, 3000),
          <<>>, "start")

\* Latin input modes: English prediction.
InitEnglish ==
  \E request_type \in {"SUGGESTION", "PREDICTION"},
     mode \in {"HALF_ASCII", "FULL_ASCII"},
     query \in {<<"a", "b">>, <<"A", "B">>, <<"A", "b">>, <<"a">>},
     dictionary_suggest \in BOOLEAN :
    Begin([Request(FALSE, FALSE, dictionary_suggest, FALSE, FALSE, mode,
                   FALSE, FALSE) EXCEPT !.composer_query = query],
          Segments(request_type, query, NoHistory, 0, 10),
          Env(DictSmall, 0, ConnectorZero, TRUE, TRUE, 3000),
          <<>>, "start")

\* Partial requests for which GetPredictionTypes enables the other
\* aggregators too.
InitPartial ==
  \E request_type \in {"PARTIAL_SUGGESTION", "PARTIAL_PREDICTION"},
     mixed \in BOOLEAN, zero_query \in BOOLEAN, realtime \in BOOLEAN,
     mode \in {"HIRAGANA", "HALF_ASCII"},
     immutable_ok \in BOOLEAN :
    Begin(Request(mixed, zero_query, TRUE, realtime, TRUE, mode, FALSE, TRUE),
          Segments(request_type, K3, KanjiHistory, 0, 10),
          Env(DictSmall, 3, ConnectorZero, TRUE, immutable_ok, 3000),
          <<>>, "start")

\* PredictForRequest(request, NULL).
InitNull ==
  Begin(Request(FALSE, FALSE, TRUE, TRUE, TRUE, "HIRAGANA", FALSE, FALSE),
        [Segments("SUGGESTION", K3, NoHistory, 0, 10) EXCEPT !.null = TRUE],
        Env(DictSmall, 0, ConnectorZero, TRUE, TRUE, 3000),
        <<>>, "start")

\* AddPredictionToCandidates called on a result vector of the caller's
\* making, in any order (as the unit tests do).
Res(k, v, w, c, t, a) ==
  [key |-> k, value |-> v, wcost |-> w, cost |-> c, lid |-> 1, rid |-> 1,
   types |-> t, candidate_attributes |-> a, source_info |-> {}]

DirectPool ==
  { Res(K3, <<"j1", "j2">>, 5, 1000, {"REALTIME"}, {"REALTIME_CONVERSION"}),
    Res(K3 \o <<"h4">>, <<"j1", "j2">>, 7, 1000, {"UNIGRAM"}, {}),
    Res(K3 \o <<"h4">>, <<"j2">>, 9, kInfinity, {"UNIGRAM"}, {}),
    Res(K3 \o <<"h5">>, <<"j2", "j1">>, 8, 400, {"SUFFIX"}, {}),
    Res(K3, <<"j1">>, 3, 10, NO_PREDICTION, {}),
    Res(HistKey \o K3 \o <<"h4">>, HistValue \o <<"j2">>, 6, 800,
        {"BIGRAM"}, {}),
    Res(K3 \o <<"h5">>, <<"j2", "j2">>, 2, 300, {"UNIGRAM"}, {}),
    Res(K3, <<"j2", "j2">>, 4, 200, {"UNIGRAM"}, {}),
    Res(K3, K3, 1, 100, {"REALTIME"}, {"REALTIME_CONVERSION"}),
    Res(K3, K3, 1, 150, {"UNIGRAM"}, {}) }

DirectVectors == UNION {[1..n -> DirectPool] : n \in 0..MaxDirectResults}

InitDirect ==
  \E res \in DirectVectors, mixed \in BOOLEAN,
     max_size \in 0..MaxDirectResults :
    Begin(Request(mixed, FALSE, TRUE, FALSE, FALSE, "HIRAGANA", FALSE, FALSE),
          Segments("SUGGESTION", K3, KanjiHistory, 0, max_size),
          Env(DictSmall, 0, ConnectorZero, TRUE, TRUE, 3000),
          res, "add")

Init == InitCore \/ InitZeroQuery \/ InitLarge \/ InitEnglish \/ InitNull
          \/ InitDirect \/ InitPartial

----------------------------------------------------------------------------
(* PredictForRequest, step by step *)

IsPartialNever(segs) == FALSE

IsPartial(segs) ==
  segs.request_type \in {"PARTIAL_SUGGESTION", "PARTIAL_PREDICTION"}

\* PredictForRequest up to the type decision of AggregatePrediction.
Start ==
  /\ pc = "start"
  /\ LET prediction_types == GetPredictionTypes(request, segments) IN
     IF segments.null
     THEN /\ ret' = FALSE
          /\ pc' = "done"
          /\ types' = types
     ELSE /\ types' = prediction_types
          /\ IF prediction_types = NO_PREDICTION
             THEN ret' = FALSE /\ pc' = "done"
             ELSE ret' = ret /\ pc' = "realtime"
  /\ UNCHANGED <<request, segments, env, results, emit, entry, stats,
                 state_, worker, os>>

RealtimeStep ==
  /\ pc = "realtime"
  /\ LET out == AggregateRealtimeConversion(types, request, segments, env,
                                            results) IN
     /\ segments' = out[1]
     /\ results' = out[2]
  /\ pc' = IF IsPartial(segments) THEN "aggregated" ELSE "unigram"
  /\ UNCHANGED <<request, env, types, emit, ret, entry, stats,
                 state_, worker, os>>

UnigramStep ==
  /\ pc = "unigram"
  /\ results' \in AggregateUnigramPrediction(types, request, segments, env,
                                             results)
  /\ pc' = "bigram"
  /\ UNCHANGED <<request, segments, env, types, emit, ret, entry, stats,
                 state_, worker, os>>

BigramStep ==
  /\ pc = "bigram"
  /\ results' = AggregateBigramPrediction(types, request, segments, env,
                                          results)
  /\ pc' = "suffix"
  /\ UNCHANGED <<request, segments, env, types, emit, ret, entry, stats,
                 state_, worker, os>>

SuffixStep ==
  /\ pc = "suffix"
  /\ results' = AggregateSuffixPrediction(types, request, segments, env,
                                          results)
  /\ pc' = "english"
  /\ UNCHANGED <<request, segments, env, types, emit, ret, entry, stats,
                 state_, worker, os>>

EnglishStep ==
  /\ pc = "english"
  /\ results' = AggregateEnglishPrediction(types, request, segments, env,
                                           results)
  /\ pc' = "typing"
  /\ UNCHANGED <<request, segments, env, types, emit, ret, entry, stats,
                 state_, worker, os>>

TypingCorrectionStep ==
  /\ pc = "typing"
  /\ results' = AggregateTypeCorrectingPrediction(types, request, segments,
                                                  env, results)
  /\ pc' = "aggregated"
  /\ UNCHANGED <<request, segments, env, types, emit, ret, entry, stats,
                 state_, worker, os>>

\* The end of AggregatePrediction: `if (results->empty()) return false;'
AggregateReturn ==
  /\ pc = "aggregated"
  /\ IF results = <<>>
     THEN ret' = FALSE /\ pc' = "done"
     ELSE ret' = ret /\ pc' = "cost"
  /\ UNCHANGED <<request, segments, env, results, types, emit, entry, stats,
                 state_, worker, os>>

SetCostStep ==
  /\ pc = "cost"
  /\ results' = SetCost(request, segments, env, results)
  /\ pc' = "remove"
  /\ UNCHANGED <<request, segments, env, types, emit, ret, entry, stats,
                 state_, worker, os>>

RemovePredictionStep ==
  /\ pc = "remove"
  /\ results' = RemovePrediction(request, segments, results)
  /\ pc' = "add"
  /\ UNCHANGED <<request, segments, env, types, emit, ret, entry, stats,
                 state_, worker, os>>

\* AddPredictionToCandidates up to its loop.
AddBegin ==
  /\ pc = "add"
  /\ emit' = EmitBegin(segments, results)
  /\ pc' = "emit"
  /\ UNCHANGED <<request, segments, env, results, types, ret, entry, stats,
                 state_, worker, os>>

\* One iteration of the loop.
EmitStep ==
  /\ pc = "emit"
  /\ ~emit.broke
  /\ emit.remaining # {}
  /\ \E idx \in PopHeap(results, emit.remaining) :
       LET out == EmitOne(request, segments, env, emit, results, idx) IN
       /\ emit' = out[1]
       /\ segments' = [segments EXCEPT !.candidates = @ \o out[2]]
  /\ UNCHANGED <<request, env, results, types, pc, ret, entry, stats,
                 state_, worker, os>>

\* The loop is left: AddPredictionToCandidates and PredictForRequest return.
AddReturn ==
  /\ pc = "emit"
  /\ emit.broke \/ emit.remaining = {}
  /\ ret' = AddPredictionReturnValue(emit.added)
  /\ pc' = "done"
  /\ UNCHANGED <<request, segments, env, results, types, emit, entry, stats,
                 state_, worker, os>>

Next ==
  \/ Start
  \/ RealtimeStep
  \/ UnigramStep
  \/ BigramStep
  \/ SuffixStep
  \/ EnglishStep
  \/ TypingCorrectionStep
  \/ AggregateReturn
  \/ SetCostStep
  \/ RemovePredictionStep
  \/ AddBegin
  \/ EmitStep
  \/ AddReturn

Spec == Init /\ [][Next]_vars

----------------------------------------------------------------------------
(* Properties of PredictForRequest *)

\* The candidates the call has appended to conversion segment 0 so far; the
\* i-th of them was made from results[emit.emitted[i]].
Appended ==
  SubSeq(segments.candidates, Len(entry.candidates) + 1,
         Len(segments.candidates))

\* C1: every candidate appended to conversion segment 0 has a final cost
\* strictly below the sentinel 2^21 = 2097152, and no result whose cost is at
\* or above the sentinel (also when a penalty raised it above) is emitted.
C1_EmittedCostBelowInfinity ==
  /\ \A i \in 1..Len(Appended) : Appended[i].cost < 2097152
  /\ \A i \in 1..Len(emit.emitted) : results[emit.emitted[i]].cost < 2097152

C1_Witness ==
  /\ pc = "done"
  /\ emit.broke
  /\ emit.added >= 1
  /\ emit.added < emit.size
  /\ \E i \in 1..Len(results) : results[i].cost > 2097152

\* C2: the values of the candidates appended by one call are pairwise
\* distinct (a BIGRAM result's value being the one left after the history
\* value is stripped from its front).
C2_EmittedValuesDistinct ==
  \A i, j \in 1..Len(Appended) :
    i # j => Appended[i].value # Appended[j].value

C2_Witness ==
  /\ pc = "done"
  /\ ~emit.broke
  /\ \E i \in 1..Len(emit.emitted) :
       \E j \in 1..Len(results) :
         /\ \A k \in 1..Len(emit.emitted) : emit.emitted[k] # j
         /\ "BIGRAM" \in results[j].types
         /\ "BIGRAM" \notin results[emit.emitted[i]].types
         /\ results[j].value
              = GetHistoryKeyAndValue(segments)[3] \o Appended[i].value
         /\ ~IsBadSuggestion(env, results[j].value)
         /\ results[j].value
              # GetHistoryKeyAndValue(segments)[2] \o segments.key

\* C3: at most 20 of the candidates appended by one call come from results
\* of type SUFFIX, however many SUFFIX results were aggregated and whatever
\* max_prediction_candidates_size is.
C3_AtMostTwentySuffix ==
  Cardinality({i \in 1..Len(emit.emitted) :
                 "SUFFIX" \in results[emit.emitted[i]].types}) <= 20

C3_Witness ==
  /\ pc = "done"
  /\ ~emit.broke
  /\ entry.max_prediction_candidates_size > 20
  /\ Cardinality({i \in 1..Len(results) : results[i].types = {"SUFFIX"}})
       > 20
  /\ Cardinality({i \in 1..Len(emit.emitted) :
                    "SUFFIX" \in results[emit.emitted[i]].types}) = 20

\* The REALTIME results other than the REALTIME_TOP one whose key is as long
\* (in bytes) as the input key.
SameLengthRealtime ==
  {i \in 1..Len(results) :
     /\ "REALTIME" \in results[i].types
     /\ "REALTIME_TOP" \notin results[i].types
     /\ Size(results[i].key) = Size(segments.key)}

C5_ExactlyOneRealtimeTop ==
  (/\ pc \in {"unigram", "aggregated"}
   /\ "REALTIME" \in types
   /\ request.use_actual_converter_for_realtime_conversion)
    => /\ Cardinality({i \in 1..Len(results) :
                         "REALTIME_TOP" \in results[i].types}) = 1
       /\ \A i \in 1..Len(results) :
            "REALTIME_TOP" \in results[i].types =>
              /\ results[i].types = {"REALTIME", "REALTIME_TOP"}
              /\ results[i].key = segments.key

\* C5, amended: once the realtime aggregator has run with
\* use_actual_converter_for_realtime_conversion set and REALTIME enabled, the
\* result vector holds exactly one REALTIME_TOP result if the converter's
\* StartConversionForRequest succeeded and none if it failed; a REALTIME_TOP
\* result is typed REALTIME | REALTIME_TOP and keyed by the conversion
\* segment's key.
C5_OneRealtimeTopIfConverterSucceeds ==
  (/\ pc \in {"unigram", "aggregated"}
   /\ "REALTIME" \in types
   /\ request.use_actual_converter_for_realtime_conversion)
    => /\ Cardinality({i \in 1..Len(results) :
                         "REALTIME_TOP" \in results[i].types})
            = IF env.converter.ok THEN 1 ELSE 0
       /\ \A i \in 1..Len(results) :
            "REALTIME_TOP" \in results[i].types =>
              /\ results[i].types = {"REALTIME", "REALTIME_TOP"}
              /\ results[i].key = segments.key

C5_Witness ==
  /\ pc = "unigram"
  /\ "REALTIME" \in types
  /\ request.use_actual_converter_for_realtime_conversion
  /\ env.converter.ok
  /\ Len(results) >= 2
  /\ results[1].types = {"REALTIME", "REALTIME_TOP"}
  /\ results[2].types = {"REALTIME"}

\* C6: the candidates are appended in ranked order, whatever the order of
\* the result vector: their costs never decrease in append order, and each
\* carries exactly the cost and the wcost of the result it was made from.
C6_RankedOrder ==
  /\ \A i, j \in 1..Len(Appended) :
       i < j => Appended[i].cost <= Appended[j].cost
  /\ Len(emit.emitted) = Len(Appended)
  /\ \A i \in 1..Len(Appended) :
       /\ Appended[i].cost = results[emit.emitted[i]].cost
       /\ Appended[i].wcost = results[emit.emitted[i]].wcost

C6_Witness ==
  /\ pc = "done"
  /\ Len(Appended) >= 2
  /\ emit.emitted[1] > emit.emitted[2]
  /\ Appended[1].cost < Appended[2].cost
  /\ Appended[1].wcost > Appended[2].wcost

\* C7: the number of candidates a call appends never exceeds the
\* max_prediction_candidates_size the caller had set before the call, nor
\* the number of aggregated results.
C7_AppendedWithinCallersMax ==
  /\ Len(Appended) <= entry.max_prediction_candidates_size
  /\ Len(Appended) <= Len(results)

\* C8: PredictForRequest returns true exactly when it appended at least one
\* candidate; with NULL segments, with no prediction type enabled, with no
\* aggregated result and with every result filtered out at emission it
\* returns false and appends nothing.
C8_ReturnsTrueIffAppended ==
  pc = "done" =>
    /\ ret \in BOOLEAN
    /\ ret <=> Len(segments.candidates) > Len(entry.candidates)
    /\ (\/ segments.null
        \/ types = NO_PREDICTION
        \/ results = <<>>
        \/ emit.added = 0) => (ret = FALSE /\ segments.candidates = entry.candidates)

C8_Witness ==
  /\ pc = "done"
  /\ ret = FALSE
  /\ Len(results) >= 2
  /\ emit.size >= 1
  /\ emit.remaining = {}
  /\ ~emit.broke
  /\ segments.candidates = entry.candidates

\* C15: for every candidate emitted from a BIGRAM result, the history key
\* followed by the emitted key is the result's key, and the history value
\* followed by the emitted value is the result's value.
C15_BigramStrip ==
  \A i \in 1..Len(emit.emitted) :
    "BIGRAM" \in results[emit.emitted[i]].types =>
      /\ i <= Len(Appended)
      /\ GetHistoryKeyAndValue(entry)[2] \o Appended[i].key
           = results[emit.emitted[i]].key
      /\ GetHistoryKeyAndValue(entry)[3] \o Appended[i].value
           = results[emit.emitted[i]].value

C15_Witness ==
  /\ pc = "done"
  /\ types # NO_PREDICTION
  /\ "BIGRAM" \in types
  /\ Len(results) >= 6
  /\ GetHistoryKeyAndValue(entry)[3] # <<>>
  /\ \E i \in 1..Len(emit.emitted) :
       /\ "BIGRAM" \in results[emit.emitted[i]].types
       /\ Appended[i].key = segments.key \o <<"h4">>
       /\ Len(results[emit.emitted[i]].key) > Len(Appended[i].key)

(* Results of AggregateSuffixPrediction, observed right after the suffix    *)
(* aggregator has run (pc = "english").                                     *)
AfterSuffix == pc = "english"

LastHistoryValue ==
  segments.history[Len(segments.history)].candidates[1].value

NumberZeroQueryResults ==
  {i \in 1..Len(results) : "ZERO_QUERY_NUMBER_SUFFIX" \in results[i].source_info}

SuffixDictionaryTokens ==
  {k \in 1..Len(env.suffix_dictionary) :
     StartsWith(env.suffix_dictionary[k].key, segments.key)}

IsSuffixDictionaryResult(r, t) ==
  /\ r.types = {"SUFFIX"}
  /\ r.key = t.key /\ r.value = t.value
  /\ r.wcost = t.cost /\ r.lid = t.lid /\ r.rid = t.rid

SuffixLookupPerformed ==
  \A k \in SuffixDictionaryTokens :
     \E i \in 1..Len(results) :
        IsSuffixDictionaryResult(results[i], env.suffix_dictionary[k])

NoSuffixDictionaryResult ==
  \A k \in SuffixDictionaryTokens :
     \A i \in 1..Len(results) :
        ~IsSuffixDictionaryResult(results[i], env.suffix_dictionary[k])

(* C16: after AggregateSuffixPrediction the result vector holds number      *)
(* zero-query results (tagged ZERO_QUERY_NUMBER_SUFFIX) if and only if the   *)
(* conversion key is empty and the top candidate value of the last history  *)
(* segment is an Arabic numeral (half or full width); every such result is  *)
(* a SUFFIX result with lid = rid = the counter-suffix word id; a kanji     *)
(* history value or a non-empty key never produces one.                     *)
C16_NumberZeroQuery ==
  (AfterSuffix /\ Len(segments.history) > 0) =>
    /\ (NumberZeroQueryResults # {}) <=>
          (segments.key = <<>> /\ IsArabicNumber(LastHistoryValue))
    /\ \A i \in NumberZeroQueryResults :
          /\ results[i].types = {"SUFFIX"}
          /\ results[i].lid = env.counter_suffix_word_id
          /\ results[i].rid = env.counter_suffix_word_id
    /\ (\A j \in 1..Len(LastHistoryValue) : LastHistoryValue[j] \in Kanji)
          => NumberZeroQueryResults = {}
    /\ segments.key # <<>> => NumberZeroQueryResults = {}

C16_Witness ==
  /\ AfterSuffix
  /\ segments.key = <<>>
  /\ LastHistoryValue = <<"F1", "F2">>
  /\ Cardinality(NumberZeroQueryResults) = 2
  /\ \A i \in NumberZeroQueryResults :
        results[i].lid = env.counter_suffix_word_id

PartialRequest ==
  segments.request_type \in {"PARTIAL_SUGGESTION", "PARTIAL_PREDICTION"}

(* C21: for a PARTIAL_SUGGESTION or PARTIAL_PREDICTION request only the    *)
(* realtime aggregator runs: every aggregated result and every result an    *)
(* emitted candidate came from has the REALTIME type, whatever other types  *)
(* GetPredictionTypes enabled; without REALTIME the call appends nothing    *)
(* and returns false.                                                       *)
C21_PartialOnlyRealtime ==
  (PartialRequest /\ pc # "start") =>
    /\ pc = "aggregated" =>
         \A i \in 1..Len(results) : "REALTIME" \in results[i].types
    /\ \A i \in 1..Len(emit.emitted) :
         "REALTIME" \in results[emit.emitted[i]].types
    /\ (pc = "done" /\ "REALTIME" \notin types) =>
         (ret = FALSE /\ segments.candidates = entry.candidates)

C21_Witness ==
  /\ PartialRequest
  /\ pc = "done"
  /\ {"REALTIME", "UNIGRAM", "BIGRAM", "SUFFIX", "TYPING_CORRECTION"}
       \subseteq types
  /\ ret = TRUE
  /\ Len(emit.emitted) >= 2

Flagged(r) == r.value \in env.bad_suggestions

EmittedResult(i) == results[emit.emitted[i]]

AllResultsProcessed == pc = "done" /\ ~emit.broke /\ emit.remaining = {}

\* The flagged live results with the input key got past the suggestion
\* filter: their value was entered in the set of seen values.
FlaggedInputKeyResultsPass ==
  \A j \in 1..Len(results) :
     (/\ results[j].types # NO_PREDICTION
      /\ Flagged(results[j])
      /\ results[j].key = segments.key
      /\ results[j].value # segments.key
      /\ "BIGRAM" \notin results[j].types)
       => results[j].value \in emit.seen

(* C24 as stated: in non-mixed mode a flagged result is dropped unless its  *)
(* key equals the input key: no emitted candidate comes from a flagged      *)
(* result with another key, and a flagged result with the input key is not  *)
(* removed by the filter.                                                   *)
C24_NonMixedFilterSparesInputKey ==
  ~IsMixedConversionEnabled(request) =>
    /\ \A i \in 1..Len(emit.emitted) :
         Flagged(EmittedResult(i)) => EmittedResult(i).key = segments.key
    /\ AllResultsProcessed => FlaggedInputKeyResultsPass

(* C24, amended: emission drops every result whose value the suggestion     *)
(* filter flags, except, in mixed mode only, a result whose key equals the  *)
(* input key: an emitted candidate that comes from a flagged result is in   *)
(* mixed mode and has the input key, and in mixed mode a flagged result     *)
(* with the input key is not removed by the filter.                         *)
C24_FilterSparesInputKeyInMixedMode ==
  /\ \A i \in 1..Len(emit.emitted) :
       Flagged(EmittedResult(i)) =>
         (IsMixedConversionEnabled(request)
            /\ EmittedResult(i).key = segments.key)
  /\ (IsMixedConversionEnabled(request) /\ AllResultsProcessed)
       => FlaggedInputKeyResultsPass

C24_Witness ==
  /\ AllResultsProcessed
  /\ IsMixedConversionEnabled(request)
  /\ \E i \in 1..Len(emit.emitted) :
       /\ Flagged(EmittedResult(i))
       /\ EmittedResult(i).key = segments.key
  /\ \E j \in 1..Len(results) :
       /\ results[j].types # NO_PREDICTION
       /\ Flagged(results[j])
       /\ results[j].key # segments.key

\* A result whose value is what the user typed.
TrivialResult(r) ==
  IF "BIGRAM" \in r.types
  THEN r.value = GetHistoryKeyAndValue(segments)[2] \o segments.key
  ELSE r.value = segments.key

(* C25 as stated: no emitted candidate comes from a trivial result, for     *)
(* every result type and in both mixed and non-mixed mode.                  *)
C25_NoTrivialCandidate ==
  \A i \in 1..Len(emit.emitted) : ~TrivialResult(EmittedResult(i))

(* C25, amended: in non-mixed mode no emitted candidate comes from a        *)
(* trivial result that is not of type REALTIME; a trivial result is         *)
(* emitted only in mixed mode or when it is a REALTIME result.              *)
C25_NoTrivialCandidateNonMixedNonRealtime ==
  \A i \in 1..Len(emit.emitted) :
     TrivialResult(EmittedResult(i)) =>
       \/ IsMixedConversionEnabled(request)
       \/ "REALTIME" \in EmittedResult(i).types

C25_Witness ==
  /\ AllResultsProcessed
  /\ ~IsMixedConversionEnabled(request)
  /\ \E j \in 1..Len(results) :
       /\ TrivialResult(results[j])
       /\ results[j].types = {"UNIGRAM"}
       /\ \A i \in 1..Len(emit.emitted) : emit.emitted[i] # j
  /\ \E i \in 1..Len(emit.emitted) :
       /\ TrivialResult(EmittedResult(i))
       /\ "REALTIME" \in EmittedResult(i).types

\* The result vector as SetCost hands it to ApplyPenaltyForKeyExpansion.
CostBeforePenalty ==
  IF IsMixedConversionEnabled(request)
  THEN SetLMCost(segments, env, results)
  ELSE SetPredictionCost(segments, env, results)

(* C26: ApplyPenaltyForKeyExpansion adds exactly 1151 to the cost of the    *)
(* results that are not TYPING_CORRECTION and whose key does not start      *)
(* with the conversion-segment key, and leaves every other cost as it was;  *)
(* when no ambiguity expansion took place no result is penalised.           *)
C26_PenaltyOnlyForExpandedKeys ==
  [][pc = "cost" =>
       \A i \in 1..Len(results) :
          /\ results'[i].cost - CostBeforePenalty[i].cost =
               (IF /\ "TYPING_CORRECTION" \notin results[i].types
                   /\ ~StartsWith(results[i].key, segments.key)
                THEN 1151 ELSE 0)
          /\ ~UseExpansion(request) =>
               results'[i].cost = CostBeforePenalty[i].cost]_vars

(* C18: AggregateRealtimeConversion leaves the segments as it found them:   *)
(* right after it returns, whatever the converters did, conversion segment  *)
(* 0 holds exactly the candidates it held before the call and               *)
(* max_prediction_candidates_size has its pre-call value.                   *)
C18_RealtimeRestoresSegments ==
  (pc = "unigram" /\ "REALTIME" \in types) =>
    /\ segments.candidates = entry.candidates
    /\ segments.max_prediction_candidates_size =
         entry.max_prediction_candidates_size

(* C20 as stated: whenever the SUFFIX bit is set, after                     *)
(* AggregateSuffixPrediction every token of the suffix dictionary that the  *)
(* predictive lookup reaches is in the result vector as a SUFFIX result.    *)
C20_SuffixLookupInAllCases ==
  (AfterSuffix /\ "SUFFIX" \in types /\ ~UseExpansion(request)
     /\ Len(results) < GetCandidateCutoffThreshold(segments))
    => SuffixLookupPerformed

(* C20, amended: with the SUFFIX bit set the suffix dictionary lookup is    *)
(* performed and its tokens are appended as SUFFIX results, also after      *)
(* history-value zero-query entries, except when the key is empty and the   *)
(* last history value is an Arabic numeral: then the number zero-query      *)
(* entries are the only results added and no suffix dictionary token is.    *)
C20_SuffixLookupUnlessNumberZeroQuery ==
  (AfterSuffix /\ "SUFFIX" \in types /\ ~UseExpansion(request)
     /\ Len(results) < GetCandidateCutoffThreshold(segments))
    => IF segments.key = <<>> /\ IsArabicNumber(LastHistoryValue)
       THEN NoSuffixDictionaryResult /\ NumberZeroQueryResults # {}
       ELSE SuffixLookupPerformed

C20_Witness ==
  /\ AfterSuffix
  /\ "SUFFIX" \in types
  /\ segments.key = <<>>
  /\ ~IsArabicNumber(LastHistoryValue)
  /\ \E i \in 1..Len(results) :
        "ZERO_QUERY_EMOTICON" \in results[i].source_info
  /\ Cardinality(SuffixDictionaryTokens) = MaxSuffixTokens
  /\ SuffixLookupPerformed

----------------------------------------------------------------------------
(* GetPredictionTypes on its own, as the unit test calls it *)

TypesKeys ==
  { <<>>, <<"0">>, <<"0", "-", "1", "2", "0">>,
    <<"0", "1", "2", "-", "0", "1">>, <<"h1">>, <<"h1", "h2">>, K3,
    Rep("a", 299), Rep("a", 300), Rep("h1", 99), Rep("h1", 100) }

TypesHistories ==
  { NoHistory,
    << [key |-> HistKey, candidates |-> <<>>] >>,
    << HistorySegment(<<"h4", "h5">>, HistValue, 1, 0) >>,
    KanjiHistory \o << HistorySegment(<<"h4">>, HistValue, 1, 0) >>,
    KanjiHistory }

InitTypes ==
  \E request_type \in RequestTypes,
     mixed \in {"off", "request", "flag"},
     zero_query \in BOOLEAN, dictionary_suggest \in BOOLEAN,
     realtime \in BOOLEAN, typing \in BOOLEAN,
     mode \in {"HIRAGANA", "HALF_ASCII"},
     conversion_segments_size \in {0, 1},
     key \in TypesKeys, history \in TypesHistories :
    /\ conversion_segments_size = 0 => key = <<>>
    /\ Begin([Request(mixed = "request", zero_query, dictionary_suggest,
                      realtime, FALSE, mode, FALSE, typing)
                EXCEPT !.FLAGS_enable_mixed_conversion = (mixed = "flag")],
             [Segments(request_type, key, history, 0, 10)
                EXCEPT !.conversion_segments_size = conversion_segments_size],
             Env(DictSmall, 0, ConnectorZero, TRUE, TRUE, 3000),
             <<>>, "types")

CallGetPredictionTypes ==
  /\ pc = "types"
  /\ types' = GetPredictionTypes(request, segments)
  /\ pc' = "types_done"
  /\ UNCHANGED <<request, segments, env, results, emit, ret, entry, stats,
                 state_, worker, os>>

NextTypes == CallGetPredictionTypes

SpecTypes == InitTypes /\ [][NextTypes]_vars

\* C9: GetPredictionTypes returns NO_PREDICTION whenever the request type is
\* CONVERSION or there is no conversion segment, whatever the config, the
\* input mode, the zero-query flag, the mixed-conversion flag and the
\* history are.
C9_NoPredictionForConversion ==
  (/\ pc = "types_done"
   /\ \/ segments.request_type = "CONVERSION"
      \/ segments.conversion_segments_size < 1)
    => types = NO_PREDICTION

C9_Witness ==
  /\ pc = "types_done"
  /\ segments.request_type = "CONVERSION"
  /\ segments.conversion_segments_size = 1
  /\ segments.key = K3
  /\ segments.history = KanjiHistory
  /\ request.use_realtime_conversion
  /\ request.use_dictionary_suggest
  /\ request.zero_query_suggestion
  /\ types = NO_PREDICTION

\* C10: for a request that is not CONVERSION and has a conversion segment,
\* REALTIME is in the returned set exactly when (the request type is
\* PARTIAL_SUGGESTION, or use_realtime_conversion is on, or mixed conversion
\* is enabled) and the key is non-empty and shorter than 300 bytes.
C10_RealtimeIff ==
  (/\ pc = "types_done"
   /\ segments.request_type # "CONVERSION"
   /\ segments.conversion_segments_size >= 1)
    => ("REALTIME" \in types
          <=> /\ \/ segments.request_type = "PARTIAL_SUGGESTION"
                 \/ request.use_realtime_conversion
                 \/ request.mixed_conversion
                 \/ request.FLAGS_enable_mixed_conversion
              /\ segments.key # <<>>
              /\ Size(segments.key) < 300)

C10_Witness ==
  /\ pc = "types_done"
  /\ segments.request_type = "PREDICTION"
  /\ Size(segments.key) = 299
  /\ request.use_realtime_conversion
  /\ "REALTIME" \in types
  /\ "UNIGRAM" \in types

\* The key of the top candidate of the last history segment has at least n
\* characters.
LastHistoryKeyAtLeast(n) ==
  /\ Len(segments.history) > 0
  /\ Len(segments.history[Len(segments.history)].candidates) > 0
  /\ Len(segments.history[Len(segments.history)].candidates[1].key) >= n

LatinModeZeroQueryOff ==
  /\ request.has_composer
  /\ request.input_mode \in {"HALF_ASCII", "FULL_ASCII"}
  /\ ~request.zero_query_suggestion

\* C11 as stated: with a HALF_ASCII or FULL_ASCII composer and zero-query
\* off, GetPredictionTypes returns a subset of {REALTIME, ENGLISH} holding
\* ENGLISH exactly when use_dictionary_suggest is on, and ENGLISH is enabled
\* in no other case.
C11_LatinMode ==
  pc = "types_done" =>
    /\ LatinModeZeroQueryOff =>
         /\ types \subseteq {"REALTIME", "ENGLISH"}
         /\ "ENGLISH" \in types <=> request.use_dictionary_suggest
    /\ "ENGLISH" \in types => LatinModeZeroQueryOff

\* C11, amended: the same for a request that is not CONVERSION and has a
\* conversion segment (a CONVERSION request, or one without a conversion
\* segment, gets NO_PREDICTION, so no ENGLISH, before the input mode is
\* looked at); ENGLISH is enabled in no other case.
C11_LatinModeWithSegment ==
  pc = "types_done" =>
    /\ (/\ LatinModeZeroQueryOff
        /\ segments.request_type # "CONVERSION"
        /\ segments.conversion_segments_size >= 1) =>
         /\ types \subseteq {"REALTIME", "ENGLISH"}
         /\ "ENGLISH" \in types <=> request.use_dictionary_suggest
    /\ LatinModeZeroQueryOff => types \subseteq {"REALTIME", "ENGLISH"}
    /\ "ENGLISH" \in types => LatinModeZeroQueryOff

C11_Witness ==
  /\ pc = "types_done"
  /\ LatinModeZeroQueryOff
  /\ segments.request_type = "PREDICTION"
  /\ segments.key = K3
  /\ segments.history = KanjiHistory
  /\ request.use_dictionary_suggest
  /\ request.use_typing_correction
  /\ request.use_realtime_conversion
  /\ types = {"REALTIME", "ENGLISH"}

\* C12: a SUGGESTION request whose key is made of ASCII digits and '-' only
\* and has fewer than 6 characters gets none of UNIGRAM, BIGRAM, SUFFIX and
\* TYPING_CORRECTION, whatever the history, the zero-query flag and the
\* typing-correction config are.
C12_ZipCodeKey ==
  (/\ pc = "types_done"
   /\ segments.request_type = "SUGGESTION"
   /\ segments.conversion_segments_size >= 1
   /\ segments.key # <<>>
   /\ \A i \in 1..Len(segments.key) :
        segments.key[i] \in {"0", "1", "2", "-"}
   /\ Len(segments.key) < 6)
    => types \cap {"UNIGRAM", "BIGRAM", "SUFFIX", "TYPING_CORRECTION"} = {}

C12_Witness ==
  /\ pc = "types_done"
  /\ segments.request_type = "SUGGESTION"
  /\ segments.key = <<"0", "-", "1", "2", "0">>
  /\ segments.history = KanjiHistory
  /\ request.zero_query_suggestion
  /\ request.use_typing_correction
  /\ request.use_dictionary_suggest
  /\ request.use_realtime_conversion
  /\ types = {"REALTIME"}

\* No earlier rule of GetPredictionTypes returns.
NotCutShort ==
  /\ segments.request_type # "CONVERSION"
  /\ segments.conversion_segments_size >= 1
  /\ ~LatinModeZeroQueryOff
  /\ ~(~request.use_dictionary_suggest /\ segments.request_type = "SUGGESTION")
  /\ ~(Len(segments.key) = 0 /\ ~request.zero_query_suggestion)
  /\ ~(/\ segments.request_type = "SUGGESTION"
       /\ segments.key # <<>>
       /\ \A i \in 1..Len(segments.key) :
            segments.key[i] \in {"0", "1", "2", "-"}
       /\ Len(segments.key) < 6)

C14_TypingCorrectionOnlyByConfig ==
  (pc = "types_done" /\ "TYPING_CORRECTION" \in types) =>
    /\ request.use_typing_correction \/ request.FLAGS_enable_typing_correction
    /\ Len(segments.key) >= 3

C14_Witness ==
  /\ pc = "types_done"
  /\ request.use_typing_correction
  /\ ~request.FLAGS_enable_typing_correction
  /\ segments.request_type = "SUGGESTION"
  /\ segments.key = K3
  /\ segments.history = NoHistory
  /\ types = {"UNIGRAM", "TYPING_CORRECTION"}


----------------------------------------------------------------------------
(* AggregateUnigramCandidate on its own, called as the desktop path calls  *)
(* it: right after AggregateRealtimeConversion, on a dictionary with about *)
(* as many entries under the key as the suggestion cutoff                  *)

MinWideTokens == 252
MaxWideTokens == 257

WideTok(i) ==
  LET k == <<H5[((i \div 125) % 5) + 1], H5[((i \div 25) % 5) + 1], H5[((i \div 5) % 5) + 1], H5[(i % 5) + 1]>>
  IN Tok(K3 \o k, <<"j1">> \o k, 1000 + i, 1, 1, {})

WideDict(n) == [i \in 1..n |-> WideTok(i)]

InitUnigram ==
  \E request_type \in {"SUGGESTION", "PREDICTION"},
     realtime \in BOOLEAN, actual \in BOOLEAN, immutable_ok \in BOOLEAN,
     n \in MinWideTokens..MaxWideTokens :
    LET req  == Request(FALSE, FALSE, TRUE, realtime, actual, "HIRAGANA",
                        FALSE, FALSE)
        segs == Segments(request_type, K3, NoHistory, 0, 10)
        e    == Env(WideDict(n), 0, ConnectorZero, TRUE, immutable_ok, 3000)
        prediction_types == GetPredictionTypes(req, segs)
        out  == AggregateRealtimeConversion(prediction_types, req, segs, e,
                                            <<>>)
    IN /\ request = req
       /\ segments = out[1]
       /\ entry = segs
       /\ env = e
       /\ results = out[2]
       /\ types = prediction_types
       /\ pc = "unigram_candidate"
       /\ emit = NoEmit
       /\ ret = "none"
       /\ stats = NoStats
       /\ state_ = ThreadInternalState
       /\ worker = NoWorker
       /\ os = "OS_LINUX"

CallAggregateUnigramCandidate ==
  /\ pc = "unigram_candidate"
  /\ results' = AggregateUnigramCandidate(request, segments, env, results)
  /\ pc' = "unigram_candidate_done"
  /\ UNCHANGED <<request, segments, env, types, emit, ret, entry, stats,
                 state_, worker, os>>

NextUnigram == CallAggregateUnigramCandidate

SpecUnigram == InitUnigram /\ [][NextUnigram]_vars

(* The results of this pass are the UNIGRAM ones: the vector handed in     *)
(* holds REALTIME results only.                                            *)
UnigramPass == {i \in 1..Len(results) : "UNIGRAM" \in results[i].types}

EarlierResults == {i \in 1..Len(results) : "UNIGRAM" \notin results[i].types}

MatchingTokens ==
  {k \in 1..Len(env.dictionary) :
     StartsWith(env.dictionary[k].key, segments.key)}

(* C19: when the lookup of AggregateUnigramCandidate is stopped by the      *)
(* cutoff threshold before the dictionary entries under the key are         *)
(* exhausted, the results of the pass are all discarded: on return the      *)
(* pass has either put every matching token in the vector or none of them,  *)
(* whatever earlier aggregators had put there.                              *)
C19_SaturatedCutoffDiscards ==
  pc = "unigram_candidate_done" =>
    \/ UnigramPass = {}
    \/ Cardinality(UnigramPass) = Cardinality(MatchingTokens)


----------------------------------------------------------------------------
(* Finish on its own, on a committed segment as the unit test sets it up   *)

MaxCommitTags == 2

SegmentTypes == {"FREE", "FIXED_BOUNDARY", "FIXED_VALUE"}

CommitCandidate(value, source_info) ==
  [Cand(value, value, 0, 0, 0, 0, {}) EXCEPT !.source_info = source_info]

SetSegmentForCommit(request_type, segment_type, candidates) ==
  [null |-> FALSE, request_type |-> request_type,
   conversion_segments_size |-> 1, key |-> <<>>,
   segment_type |-> segment_type,
   candidates |-> candidates, history |-> KanjiHistory,
   max_prediction_candidates_size |-> 10]

CommitSourceInfos ==
  {tags \in SUBSET ZeroQueryCategories : Cardinality(tags) <= MaxCommitTags}

InitFinish ==
  \E request_type \in RequestTypes, segment_type \in SegmentTypes,
     committed \in CommitSourceInfos,
     other \in {{}, {"ZERO_QUERY_EMOJI"}},
     n \in 0..2 :
    LET candidates ==
          SubSeq(<< CommitCandidate(<<"j1">>, committed),
                    CommitCandidate(<<"j2">>, other) >>, 1, n)
    IN /\ n < 2 => other = {}
       /\ n < 1 => committed = {}
       /\ Begin(Request(FALSE, TRUE, TRUE, FALSE, FALSE, "HIRAGANA", FALSE,
                        FALSE),
                SetSegmentForCommit(request_type, segment_type, candidates),
                Env(DictSmall, 0, ConnectorZero, TRUE, TRUE, 3000),
                <<>>, "finish")

CallFinish ==
  /\ pc = "finish"
  /\ stats' = Finish(request, segments, stats)
  /\ pc' = "finished"
  /\ UNCHANGED <<request, segments, env, results, types, emit, ret, entry,
                 state_, worker, os>>

NextFinish == CallFinish

SpecFinish == InitFinish /\ [][NextFinish]_vars

Committed == segments.candidates[1]

FinishRecords ==
  /\ segments.request_type # "REVERSE_CONVERSION"
  /\ Len(segments.candidates) >= 1
  /\ segments.segment_type = "FIXED_VALUE"

IncrementCountCalls ==
  LET names == {name \in StatNames : stats[name] > 0}
  IN IF \A name \in names : stats[name] = 1 THEN Cardinality(names) ELSE 99

(* C17: after Finish, the counter of a zero-query category has been        *)
(* incremented once if the request is not REVERSE_CONVERSION, conversion   *)
(* segment 0 has a candidate, the segment is FIXED_VALUE and candidate 0's *)
(* source-info tags that category, and not at all otherwise; so a          *)
(* committed candidate tagged with one category causes exactly one         *)
(* IncrementCount call, and no call is made when a guard fails or no       *)
(* category is tagged.                                                     *)
C17_FinishCountsCommittedCategory ==
  pc = "finished" =>
    /\ \A c \in ZeroQueryCategories :
          stats[StatName(c)] =
            IF FinishRecords /\ c \in Committed.source_info THEN 1 ELSE 0
    /\ (FinishRecords /\ Cardinality(Committed.source_info) = 1)
          => IncrementCountCalls = 1
    /\ (~FinishRecords \/ Committed.source_info = {})
          => IncrementCountCalls = 0

C17_Witness ==
  /\ pc = "finished"
  /\ FinishRecords
  /\ Len(segments.candidates) = 2
  /\ Committed.source_info = {"ZERO_QUERY_NUMBER_SUFFIX"}
  /\ segments.candidates[2].source_info = {"ZERO_QUERY_EMOJI"}
  /\ stats["CommitDictionaryPredictorZeroQueryTypeNumberSuffix"] = 1
  /\ IncrementCountCalls = 1


----------------------------------------------------------------------------
(* RemoveMissSpelledCandidates on its own, on result vectors of the        *)
(* caller's making, as the unit test calls it                              *)

MaxSpellingCorrections == 6

\* The i-th spelling-corrected result: an odd one has a katakana value
\* that departs from its key at the third character, an even one a value
\* of mixed script.
CorrectedKey(i) == K3 \o Rep("h1", i \div 5) \o << H5[(i % 5) + 1] >>

CorrectedValue(i) ==
  IF i % 2 = 1 THEN <<"k1", "k2", "h4">> \o Rep("h1", i \div 5) \o << H5[(i % 5) + 1] >>
  ELSE <<"j1">> \o Rep("j2", i \div 5) \o << H5[(i % 5) + 1] >>

Corrected(i) ==
  Res(CorrectedKey(i), CorrectedValue(i), 100 + i, 0, {"UNIGRAM"}, {"SPELLING_CORRECTION"})

SameKeyPeer(i) ==
  Res(CorrectedKey(i), <<"j2">> \o CorrectedKey(i), 200 + i, 0, {"UNIGRAM"}, {})

SameValuePeer(i) ==
  Res(<<"h5">> \o CorrectedKey(i), CorrectedValue(i), 300 + i, 0, {"REALTIME"}, {})

PeerChoices == {"none", "key", "value", "both"}

Peers(i, choice) ==
  CASE choice = "none"  -> <<>>
    [] choice = "key"   -> << SameKeyPeer(i) >>
    [] choice = "value" -> << SameValuePeer(i) >>
    [] choice = "both"  -> << SameValuePeer(i), SameKeyPeer(i) >>

RECURSIVE SpellingVector(_, _, _)
SpellingVector(choice, i, n) ==
  IF i > n THEN <<>>
  ELSE (IF i % 2 = 1
        THEN Peers(i, choice[i]) \o << Corrected(i) >>
        ELSE << Corrected(i) >> \o Peers(i, choice[i]))
       \o SpellingVector(choice, i + 1, n)

InitRemove ==
  \E n \in 0..MaxSpellingCorrections, key \in {<<"h1", "h2">>, K3, K3 \o <<"h1", "h1">>} :
    \E choice \in [1..n -> PeerChoices] :
      Begin(Request(FALSE, FALSE, TRUE, FALSE, FALSE, "HIRAGANA", FALSE, FALSE),
            Segments("SUGGESTION", key, NoHistory, 0, 10),
            Env(DictSmall, 0, ConnectorZero, TRUE, TRUE, 3000),
            SpellingVector(choice, 1, n), "remove_miss_spelled")

CallRemoveMissSpelledCandidates ==
  /\ pc = "remove_miss_spelled"
  /\ results' = RemoveMissSpelledCandidates(CharsLen(segments.key), results)
  /\ pc' = "removed_miss_spelled"
  /\ UNCHANGED <<request, segments, env, types, emit, ret, entry, stats,
                 state_, worker, os>>

NextRemove == CallRemoveMissSpelledCandidates

SpecRemove == InitRemove /\ [][NextRemove]_vars

SpellingCorrected(res) == {i \in 1..Len(res) : IsSpellingCorrection(res[i])}

\* K and V of the decision table.
SameKeyPeers(res, i) ==
  {j \in 1..Len(res) \ SpellingCorrected(res) : res[j].key = res[i].key}

SameValuePeers(res, i) ==
  {j \in 1..Len(res) \ SpellingCorrected(res) : res[j].value = res[i].value}

\* What the decision table marks for the spelling-corrected result i.
TableMarks(res, i, request_key_chars) ==
  LET K == SameKeyPeers(res, i)
      V == SameValuePeers(res, i)
  IN CASE K # {} /\ V # {} -> K \cup {i}
       [] K = {} /\ V # {} -> {i}
       [] K # {} /\ V = {} ->
            K \cup (IF request_key_chars <= GetMissSpelledPosition(res[i].key, res[i].value)
                    THEN {i} ELSE {})
       [] OTHER -> {}

\* The first n spelling-corrected results in vector order.
FirstCorrected(res, n) ==
  {i \in SpellingCorrected(res) : Cardinality({k \in SpellingCorrected(res) : k <= i}) <= n}

MarkedExactly(before, after, marked) ==
  /\ Len(after) = Len(before)
  /\ \A j \in 1..Len(before) :
        after[j] = IF j \in marked THEN [before[j] EXCEPT !.types = NO_PREDICTION]
                   ELSE before[j]

ProcessedByScan(res) ==
  IF Len(res) <= 1 THEN {} ELSE FirstCorrected(res, kSpellingCorrectionSize - 1)

(* C22: RemoveMissSpelledCandidates puts every spelling-corrected result   *)
(* it processes through the decision table on K (same key) and V (same     *)
(* value): the results it marks NO_PREDICTION are exactly those the table  *)
(* names, no result is erased and nothing else of any result changes.      *)
C22_DecisionTable ==
  [][pc = "remove_miss_spelled" =>
       MarkedExactly(results, results',
                     UNION {TableMarks(results, i, CharsLen(segments.key)) :
                              i \in ProcessedByScan(results)})]_vars

DeadAt(j) == results[j].types = NO_PREDICTION

C22_Witness ==
  /\ pc = "removed_miss_spelled"
  /\ CharsLen(segments.key) = 3
  /\ Len(results) = 9
  /\ SpellingCorrected(results) = {3, 4, 7, 8}
  /\ ~DeadAt(1) /\ DeadAt(2) /\ DeadAt(3)
  /\ DeadAt(4) /\ DeadAt(5)
  /\ DeadAt(6) /\ ~DeadAt(7)
  /\ DeadAt(8) /\ ~DeadAt(9)

(* C23: the scan processes the first five spelling-corrected results in    *)
(* vector order and leaves those after the fifth untouched.                *)
C23_ScansFive ==
  [][pc = "remove_miss_spelled" =>
       MarkedExactly(results, results',
                     UNION {TableMarks(results, i, CharsLen(segments.key)) :
                              i \in FirstCorrected(results, 5)})]_vars


----------------------------------------------------------------------------
(* AggregateBigramPrediction on its own, with the BIGRAM bit set, as the   *)
(* unit test calls it                                                      *)

MaxContinuations == 2

\* <<history key, history value>>: kanji, hiragana, katakana with a short
\* and with a long key, mixed script.
BigramHistories ==
  { <<HistKey, <<"j1">> >>,
    << <<"h4", "h5">>, <<"h4", "h5">> >>,
    << <<"h4", "h5">>, <<"k1", "k2">> >>,
    << HistKey \o <<"h4">>, <<"k1", "k2">> >>,
    << HistKey, <<"j1", "h4">> >> }

\* <<key, value>> of the continuations the dictionary may hold after the
\* history word.
Continuations ==
  << << <<"h1">>, <<"k1", "k2">> >>,
     << <<"h1">>, <<"h1">> >>,
     << <<"h1", "h2">>, <<"j2", "j1">> >>,
     << <<"h1">>, <<"j2">> >>,
     << <<"h1", "h2", "h3">>, <<"k2", "k1">> >>,
     << <<>>, <<"j2", "j2">> >>,
     << <<"h1">>, <<"a">> >> >>

RECURSIVE BigramDict(_, _, _, _)
BigramDict(h, chosen, standalone, i) ==
  IF i > Len(Continuations) THEN <<>>
  ELSE (IF i \in chosen
        THEN << Tok(h[1] \o Continuations[i][1], h[2] \o Continuations[i][2], 1000, 1, 1, {}) >>
               \o (IF standalone /\ Continuations[i][1] # <<>>
                   THEN << Tok(Continuations[i][1], Continuations[i][2], 900, 1, 1, {}) >>
                   ELSE <<>>)
        ELSE <<>>)
       \o BigramDict(h, chosen, standalone, i + 1)

HistoryTokens(h, how, cost) ==
  CASE how = "none"   -> <<>>
    [] how = "exact"  -> << Tok(h[1], h[2], cost, 1, 1, {}) >>
    [] how = "prefix" -> << Tok(SubSeq(h[1], 1, Len(h[1]) - 1), h[2], cost, 1, 1, {}) >>

InitBigram ==
  \E h \in BigramHistories, how \in {"none", "exact", "prefix"},
     cost \in {100, 2000}, standalone \in BOOLEAN,
     key \in {<<>>, <<"h1">>}, earlier \in BOOLEAN,
     chosen \in SUBSET (1..Len(Continuations)) :
    /\ Cardinality(chosen) \in 1..MaxContinuations
    /\ request = Request(FALSE, TRUE, TRUE, FALSE, FALSE, "HIRAGANA", FALSE, FALSE)
    /\ segments = Segments("SUGGESTION", key, << HistorySegment(h[1], h[2], 1, 0) >>, 0, 10)
    /\ entry = segments
    /\ env = Env(HistoryTokens(h, how, cost) \o BigramDict(h, chosen, standalone, 1), 0, ConnectorZero, TRUE, TRUE, 3000)
    /\ results = IF earlier THEN << Res(K3, <<"j1", "j2">>, 5, 0, {"REALTIME"}, {}) >> ELSE <<>>
    /\ types = {"BIGRAM"}
    /\ pc = "bigram_call"
    /\ emit = NoEmit
    /\ ret = "none"
    /\ stats = NoStats
    /\ state_ = ThreadInternalState
    /\ worker = NoWorker
    /\ os = "OS_LINUX"

CallAggregateBigramPrediction ==
  /\ pc = "bigram_call"
  /\ results' = AggregateBigramPrediction(types, request, segments, env, results)
  /\ pc' = "bigram_called"
  /\ UNCHANGED <<request, segments, env, types, emit, ret, entry, stats,
                 state_, worker, os>>

NextBigram == CallAggregateBigramPrediction

SpecBigram == InitBigram /\ [][NextBigram]_vars

HistoryKeyOf == GetHistoryKeyAndValue(segments)[2]

HistoryValueOf == GetHistoryKeyAndValue(segments)[3]

\* The dictionary entries a prefix lookup of the history key finds with the
\* history value.
HistoryEntries ==
  {k \in 1..Len(env.dictionary) :
     /\ StartsWith(HistoryKeyOf, env.dictionary[k].key)
     /\ env.dictionary[k].value = HistoryValueOf}

HistoryEntry ==
  env.dictionary[CHOOSE k \in HistoryEntries : \A m \in HistoryEntries : k <= m]

\* The dictionary entries the bigram lookup collects.
CollectedEntries ==
  {k \in 1..Len(env.dictionary) :
     /\ StartsWith(env.dictionary[k].key, HistoryKeyOf \o segments.key)
     /\ StartsWith(env.dictionary[k].value, HistoryValueOf)
     /\ Len(env.dictionary[k].value) > Len(HistoryValueOf)}

InDictionary(key, value) ==
  \E k \in 1..Len(env.dictionary) :
     StartsWith(key, env.dictionary[k].key) /\ env.dictionary[k].value = value

\* The rules in order, first match wins, on a collected result r.
BigramKept(r) ==
  LET key   == SubSeq(r.key, Len(HistoryEntry.key) + 1, Len(r.key))
      value == SubSeq(r.value, Len(HistoryEntry.value) + 1, Len(r.value))
      first == ScriptOf(value[1])
      last  == ScriptOf(HistoryValueOf[Len(HistoryValueOf)])
      history_kanji == \A p \in 1..Len(HistoryValueOf) : HistoryValueOf[p] \in Kanji
  IN CASE key = <<>> \/ value = <<>> -> FALSE
       [] OTHER ->
          CASE history_kanji /\ first = "KATAKANA" -> TRUE
            [] OTHER ->
               CASE first # "KANJI" /\ HistoryEntry.cost > r.wcost -> FALSE
                 [] OTHER ->
                    CASE first = last /\ first = "HIRAGANA" -> FALSE
                      [] first = last /\ first = "KATAKANA" /\ Len(r.key) <= 5 -> FALSE
                      [] OTHER ->
                         CASE first = "KANJI" /\ Len(value) >= 2 -> TRUE
                           [] OTHER -> InDictionary(key, value)

BigramResultOf(r, t) ==
  /\ r.key = t.key /\ r.value = t.value /\ r.wcost = t.cost
  /\ r.types = IF BigramKept(r) THEN {"BIGRAM"} ELSE NO_PREDICTION

(* C27: the bigram aggregator adds nothing when the history value is not    *)
(* found by a prefix lookup of the history key; otherwise it adds one       *)
(* result per collected dictionary entry, in dictionary order, and each is  *)
(* kept or marked dead by the rules of CheckBigramResult applied in their   *)
(* order, first match wins, key and value being stripped of the key and     *)
(* value of the history entry found.  Earlier results are left as they are. *)
C27_BigramRules ==
  [][pc = "bigram_call" =>
       IF HistoryEntries = {} THEN results' = results
       ELSE /\ Len(results') = Len(results) + Cardinality(CollectedEntries)
            /\ SubSeq(results', 1, Len(results)) = results
            /\ \A k \in CollectedEntries :
                  BigramResultOf(
                    results'[Len(results) + Cardinality({m \in CollectedEntries : m <= k})],
                    env.dictionary[k])]_vars

BigramResultAt(i, value, prediction_types) ==
  results[i].value = HistoryValueOf \o value /\ results[i].types = prediction_types

C27_Witness ==
  /\ pc = "bigram_called"
  /\ HistoryValueOf = <<"k1", "k2">>
  /\ Len(HistoryKeyOf) = 4
  /\ HistoryEntries # {}
  /\ Len(results) = 3
  /\ results[1].types = {"REALTIME"}
  /\ BigramResultAt(2, <<"k1", "k2">>, NO_PREDICTION)
  /\ BigramResultAt(3, <<"k2", "k1">>, {"BIGRAM"})


----------------------------------------------------------------------------
(* AggregateUnigramCandidateForMixedConversion on its own, on dictionaries *)
(* whose values extend one another, as the mobile unigram test has them    *)

MaxExtensions == 7
MaxUnrelated == 6

\* A word, up to MaxExtensions words whose value extends it, a second word
\* with one extension, and words unrelated to either.
ExtensionCost(costs, i) ==
  CASE costs = "ascending"  -> 100 + i
    [] costs = "descending" -> 200 - i
    [] costs = "equal"      -> 150

NestedDict(n_ext, n_other, n_unrelated, costs) ==
  [i \in 1..n_ext |-> Tok(K3 \o <<"h1">>, <<"j1">> \o Rep("j2", i), ExtensionCost(costs, i), 1, 1, {})]
    \o << Tok(K3, <<"j1">>, 10, 1, 1, {}) >>
    \o [i \in 1..n_other |-> Tok(K3 \o <<"h2">>, <<"j2">> \o Rep("j1", i - 1), 20 + 300 * (i - 1), 1, 1, {})]
    \o [i \in 1..n_unrelated |-> Tok(K3 \o <<"h3">>, <<"k1">> \o Rep("k2", 7 - i) \o <<"k1">>, 30 + i, 1, 1, {})]

Reversed(v) == [i \in 1..Len(v) |-> v[Len(v) + 1 - i]]

InitMixedUnigram ==
  \E n_ext \in 0..MaxExtensions, n_other \in 0..2,
     n_unrelated \in 0..MaxUnrelated,
     costs \in {"ascending", "descending", "equal"},
     reversed \in BOOLEAN :
    LET d == NestedDict(n_ext, n_other, n_unrelated, costs) IN
    /\ request = Request(TRUE, FALSE, TRUE, FALSE, FALSE, "HIRAGANA", FALSE, FALSE)
    /\ segments = Segments("SUGGESTION", K3, NoHistory, 0, 10)
    /\ entry = segments
    /\ env = Env(IF reversed THEN Reversed(d) ELSE d, 0, ConnectorZero, TRUE, TRUE, 3000)
    /\ results = <<>>
    /\ types = {"UNIGRAM"}
    /\ pc = "mixed_unigram_call"
    /\ emit = NoEmit
    /\ ret = "none"
    /\ stats = NoStats
    /\ state_ = ThreadInternalState
    /\ worker = NoWorker
    /\ os = "OS_LINUX"

CallAggregateUnigramCandidateForMixedConversion ==
  /\ pc = "mixed_unigram_call"
  /\ results' \in AggregateUnigramCandidateForMixedConversion(request, segments, env, results)
  /\ pc' = "mixed_unigram_called"
  /\ UNCHANGED <<request, segments, env, types, emit, ret, entry, stats,
                 state_, worker, os>>

NextMixedUnigram == CallAggregateUnigramCandidateForMixedConversion

SpecMixedUnigram == InitMixedUnigram /\ [][NextMixedUnigram]_vars

\* The raw lookup results, as positions in the dictionary.
RawResults ==
  {k \in 1..Len(env.dictionary) : StartsWith(env.dictionary[k].key, segments.key)}

ResultOfToken(r, k) ==
  /\ r.key = env.dictionary[k].key /\ r.value = env.dictionary[k].value
  /\ r.wcost = env.dictionary[k].cost /\ r.types = {"UNIGRAM"}

AppendedRaw == {k \in RawResults : \E i \in 1..Len(results) : ResultOfToken(results[i], k)}

MinimumOf(S) ==
  CHOOSE k \in S : \A m \in S : env.dictionary[k].cost <= env.dictionary[m].cost

\* <<reference results, results set aside as redundant>> of n rounds on S.
RECURSIVE ReferenceRounds(_, _)
ReferenceRounds(S, n) ==
  IF n = 0 \/ S = {} THEN <<{}, {}>>
  ELSE LET m == MinimumOf(S)
           aside == {k \in S \ {m} : StartsWith(env.dictionary[k].value, env.dictionary[m].value)}
           rest == ReferenceRounds(S \ ({m} \cup aside), n - 1)
       IN <<{m} \cup rest[1], aside \cup rest[2]>>

SetAside == ReferenceRounds(RawResults, 5)[2]

RevivedNotDearerThan(k) ==
  {a \in AppendedRaw \cap SetAside : env.dictionary[a].cost <= env.dictionary[k].cost}

ExtendingMinimum ==
  {a \in AppendedRaw :
     StartsWith(env.dictionary[a].value, env.dictionary[MinimumOf(RawResults)].value)}

(* C28: AggregateUnigramCandidateForMixedConversion appends a sub-multiset  *)
(* of the raw lookup results; a raw result is left out only if it was set   *)
(* aside as redundant to one of the at most 5 reference results and at      *)
(* least 5 set-aside results of no greater wcost were revived; the result   *)
(* of minimum wcost is always appended and at most 6 appended results have  *)
(* a value that starts with its value.                                      *)
C28_MixedUnigramOmitsOnlyRedundant ==
  pc = "mixed_unigram_called" =>
    /\ Len(results) = Cardinality(AppendedRaw)
    /\ \A i \in 1..Len(results) : \E k \in RawResults : ResultOfToken(results[i], k)
    /\ \A k \in RawResults \ AppendedRaw :
          k \in SetAside /\ Cardinality(RevivedNotDearerThan(k)) >= 5
    /\ RawResults # {} =>
          /\ MinimumOf(RawResults) \in AppendedRaw
          /\ Cardinality(ExtendingMinimum) <= 6

C28_Witness ==
  /\ pc = "mixed_unigram_called"
  /\ Cardinality(RawResults \ AppendedRaw) = 3
  /\ Cardinality(ExtendingMinimum) = 6
  /\ Cardinality(ReferenceRounds(RawResults, 5)[1]) = 5
  /\ Cardinality(AppendedRaw \ (SetAside \cup ReferenceRounds(RawResults, 5)[1])) >= 1


----------------------------------------------------------------------------
(* GetRealtimeCandidateMaxSize on its own *)

MaxKeyChars == 10

RealtimeRequestTypes ==
  {"PREDICTION", "SUGGESTION", "PARTIAL_PREDICTION", "PARTIAL_SUGGESTION"}

RealtimeMaxSizes == {0, 1, 3, 5, 7, 8, 9, 10, 12, 100}

\* Segments with no segment at all, as the first test has them, or with one
\* segment whose key has n characters, as the second test has them.
InitRealtimeSize ==
  \E request_type \in RealtimeRequestTypes, mixed \in BOOLEAN,
     n \in 0..MaxKeyChars, max_size \in RealtimeMaxSizes,
     conversion_segments_size \in {0, 1} :
    /\ conversion_segments_size = 0 => n = 0
    /\ request = Request(mixed, FALSE, TRUE, TRUE, FALSE, "HIRAGANA", FALSE, FALSE)
    /\ segments = [Segments(request_type, Rep("h1", n), NoHistory, 0, max_size)
                     EXCEPT !.conversion_segments_size = conversion_segments_size]
    /\ entry = segments
    /\ env = Env(DictSmall, 0, ConnectorZero, TRUE, TRUE, 3000)
    /\ results = <<>>
    /\ types = {"REALTIME"}
    /\ pc = "realtime_size_call"
    /\ emit = NoEmit
    /\ ret = "none"
    /\ stats = NoStats
    /\ state_ = ThreadInternalState
    /\ worker = NoWorker
    /\ os = "OS_LINUX"

CallGetRealtimeCandidateMaxSize ==
  /\ pc = "realtime_size_call"
  /\ ret' = GetRealtimeCandidateMaxSize(segments, request.mixed_conversion,
                                        segments.max_prediction_candidates_size)
  /\ pc' = "realtime_size_called"
  /\ UNCHANGED <<request, segments, env, results, types, emit, entry, stats,
                 state_, worker, os>>

NextRealtimeSize == CallGetRealtimeCandidateMaxSize

SpecRealtimeSize == InitRealtimeSize /\ [][NextRealtimeSize]_vars

\* The value for the same mixed flag, key and max_size and another type.
SizeForType(request_type) ==
  GetRealtimeCandidateMaxSize([segments EXCEPT !.request_type = request_type],
                              request.mixed_conversion,
                              segments.max_prediction_candidates_size)

\* The value for the same type, mixed flag and max_size and a key of n chars.
SizeForKey(n) ==
  GetRealtimeCandidateMaxSize([segments EXCEPT !.key = Rep("h1", n)],
                              request.mixed_conversion,
                              segments.max_prediction_candidates_size)

LongFirstKey ==
  SegmentsSize(segments) > 0 /\ CharsLen(FirstSegmentKey(segments)) >= 8

(* C29: GetRealtimeCandidateMaxSize returns at most max_size; for equal     *)
(* mixed flag, key and max_size SUGGESTION gets no more than PREDICTION,    *)
(* PARTIAL_SUGGESTION no more than PARTIAL_PREDICTION, and each PARTIAL     *)
(* type no less than its non-partial counterpart; for a first-segment key   *)
(* of 8 or more characters the value is at most min(8, max_size) and never  *)
(* larger than for a shorter key.                                           *)
C29_RealtimeSizeOrdering ==
  pc = "realtime_size_called" =>
    /\ ret <= segments.max_prediction_candidates_size
    /\ segments.request_type = "SUGGESTION" => ret <= SizeForType("PREDICTION")
    /\ segments.request_type = "PARTIAL_SUGGESTION" =>
          /\ ret <= SizeForType("PARTIAL_PREDICTION")
          /\ ret >= SizeForType("SUGGESTION")
    /\ segments.request_type = "PARTIAL_PREDICTION" =>
          ret >= SizeForType("PREDICTION")
    /\ LongFirstKey =>
          /\ ret <= Min(8, segments.max_prediction_candidates_size)
          /\ \A n \in 0..7 : ret <= SizeForKey(n)

C29_Witness ==
  /\ pc = "realtime_size_called"
  /\ segments.request_type = "PARTIAL_SUGGESTION"
  /\ LongFirstKey
  /\ segments.max_prediction_candidates_size = 100
  /\ ret = 5
  /\ SizeForKey(5) = 10


----------------------------------------------------------------------------
(* mozc::Thread, pthread implementation (base/thread.cc): one controlling   *)
(* thread calling SetJoinable, Start and Terminate on a Thread object, and  *)
(* the worker the object creates, interleaved step by step.                 *)

MaxStarts == 2
MaxRunSteps == 2

\* The three builds of PThreadCancel / InitPThreadCancel / WrapperForPOSIX.
Platforms == {"OS_LINUX", "OS_ANDROID", "OS_NACL"}

predictor_vars ==
  <<request, segments, env, results, types, emit, ret, entry, stats>>

InitThread ==
  /\ os \in Platforms
  /\ state_ = ThreadInternalState
  /\ worker = NoWorker
  /\ pc = "idle"
  /\ request = Request(FALSE, FALSE, TRUE, FALSE, FALSE, "HIRAGANA", FALSE, FALSE)
  /\ segments = Segments("SUGGESTION", K3, NoHistory, 0, 10)
  /\ entry = segments
  /\ env = Env(DictSmall, 0, ConnectorZero, TRUE, TRUE, 3000)
  /\ results = <<>>
  /\ types = NO_PREDICTION
  /\ emit = NoEmit
  /\ ret = "none"
  /\ stats = NoStats

\* The worker is alive: created and not yet terminated.
Alive == worker.pc \in {"created", "initialized", "run", "pop", "cancelled", "return"}

\* void Thread::SetJoinable(bool joinable)
SetJoinable ==
  /\ pc = "idle"
  /\ \E joinable \in BOOLEAN : state_' = [state_ EXCEPT !.joinable_ = joinable]
  /\ UNCHANGED <<predictor_vars, pc, worker, os>>

\* void Thread::Start(): nothing while IsRunning(); otherwise Detach(), then
\* is_running_ = true, a fresh handle and pthread_create, which may fail.
\* The Run() of the new worker takes up to MaxRunSteps steps.
ThreadStart ==
  /\ pc = "idle"
  /\ worker.starts < MaxStarts
  /\ IF state_.is_running_
       THEN UNCHANGED <<state_, worker>>
       ELSE \E created \in BOOLEAN, n \in 0..MaxRunSteps :
              IF created
                THEN /\ state_' = [state_ EXCEPT !.is_running_ = TRUE,
                                                 !.handle_ = "pthread_t"]
                     /\ worker' = [worker EXCEPT !.pc = "created",
                                                 !.cancel = FALSE,
                                                 !.left = n,
                                                 !.starts = @ + 1]
                ELSE /\ state_' = [state_ EXCEPT !.is_running_ = FALSE,
                                                 !.handle_ = "nullptr"]
                     /\ UNCHANGED worker
  /\ UNCHANGED <<predictor_vars, pc, os>>

\* void Thread::Terminate(): the test of handle_.
TerminateBegin ==
  /\ pc = "idle"
  /\ pc' = IF state_.handle_ # "nullptr" THEN "PThreadCancel" ELSE "idle"
  /\ UNCHANGED <<predictor_vars, state_, worker, os>>

\* PThreadCancel: pthread_cancel, pthread_kill(SIGUSR1) on Android, nothing
\* on NaCl. The request stays pending until the worker acts on it.
PThreadCancel ==
  /\ pc = "PThreadCancel"
  /\ worker' = [worker EXCEPT !.cancel = (@ \/ (os # "OS_NACL" /\ Alive))]
  /\ pc' = "Join"
  /\ UNCHANGED <<predictor_vars, state_, os>>

\* void Thread::Join(), called by Terminate: the two early returns.
Join ==
  /\ pc = "Join"
  /\ pc' = IF ~state_.joinable_ \/ state_.handle_ = "nullptr"
             THEN "reset" ELSE "pthread_join"
  /\ UNCHANGED <<predictor_vars, state_, worker, os>>

\* pthread_join blocks until the worker has terminated; Join then resets
\* the handle.
PthreadJoin ==
  /\ pc = "pthread_join"
  /\ worker.pc = "exited"
  /\ state_' = [state_ EXCEPT !.handle_ = "nullptr"]
  /\ pc' = "reset"
  /\ UNCHANGED <<predictor_vars, worker, os>>

\* Terminate: state_->handle_.reset(nullptr) and the return.
TerminateReset ==
  /\ pc = "reset"
  /\ state_' = [state_ EXCEPT !.handle_ = "nullptr"]
  /\ pc' = "terminate_returned"
  /\ UNCHANGED <<predictor_vars, worker, os>>

TerminateReturn ==
  /\ pc = "terminate_returned"
  /\ pc' = "idle"
  /\ UNCHANGED <<predictor_vars, state_, worker, os>>

\* WrapperForPOSIX: InitPThreadCancel() installs the SIGUSR1 handler on
\* Android and does nothing elsewhere.
InitPThreadCancel ==
  /\ worker.pc = "created"
  /\ worker' = [worker EXCEPT !.pc = "initialized",
                              !.sigaction = (@ \/ os = "OS_ANDROID")]
  /\ UNCHANGED <<predictor_vars, pc, state_, os>>

\* WrapperForPOSIX: pthread_cleanup_push (no cleanup handler on NaCl).
PthreadCleanupPush ==
  /\ worker.pc = "initialized"
  /\ worker' = [worker EXCEPT !.pc = "run"]
  /\ UNCHANGED <<predictor_vars, pc, state_, os>>

\* One step of Run(), which is or is not a cancellation point; a pending
\* pthread_cancel is acted on at a cancellation point only.
Run ==
  /\ worker.pc = "run"
  /\ worker.left > 0
  /\ \E cancellation_point \in BOOLEAN :
       worker' = IF cancellation_point /\ os = "OS_LINUX" /\ worker.cancel
                   THEN [worker EXCEPT !.pc = "cancelled"]
                   ELSE [worker EXCEPT !.left = @ - 1]
  /\ UNCHANGED <<predictor_vars, pc, state_, os>>

RunReturn ==
  /\ worker.pc = "run"
  /\ worker.left = 0
  /\ worker' = [worker EXCEPT !.pc = "pop"]
  /\ UNCHANGED <<predictor_vars, pc, state_, os>>

\* pthread_cleanup_pop(1) runs PThreadCleanupRoutine; on NaCl the wrapper
\* assigns is_running_ = false itself.
PthreadCleanupPop ==
  /\ worker.pc = "pop"
  /\ state_' = [state_ EXCEPT !.is_running_ = FALSE]
  /\ worker' = [worker EXCEPT !.pc = "return"]
  /\ UNCHANGED <<predictor_vars, pc, os>>

\* The cancelled worker runs its cleanup handler and terminates.
PThreadCleanupRoutine ==
  /\ worker.pc = "cancelled"
  /\ state_' = [state_ EXCEPT !.is_running_ = FALSE]
  /\ worker' = [worker EXCEPT !.pc = "exited"]
  /\ UNCHANGED <<predictor_vars, pc, os>>

\* WrapperForPOSIX: return nullptr.
WrapperReturn ==
  /\ worker.pc = "return"
  /\ worker' = [worker EXCEPT !.pc = "exited"]
  /\ UNCHANGED <<predictor_vars, pc, state_, os>>

\* Android: SIGUSR1 reaches the worker at any instruction. Before the
\* handler is installed the default action ends the process; afterwards
\* ExitThread calls pthread_exit, which runs the cleanup handler only
\* between pthread_cleanup_push and pthread_cleanup_pop.
ExitThread ==
  /\ os = "OS_ANDROID"
  /\ worker.cancel
  /\ Alive
  /\ IF ~worker.sigaction
       THEN /\ worker' = [worker EXCEPT !.pc = "killed", !.cancel = FALSE]
            /\ pc' = "process_terminated"
            /\ UNCHANGED state_
       ELSE /\ worker' = [worker EXCEPT !.pc = "exited", !.cancel = FALSE]
            /\ state_' = [state_ EXCEPT !.is_running_ =
                             (@ /\ worker.pc \notin {"run", "pop"})]
            /\ UNCHANGED pc
  /\ UNCHANGED <<predictor_vars, os>>

NextThread ==
  \/ SetJoinable \/ ThreadStart
  \/ TerminateBegin \/ PThreadCancel \/ Join \/ PthreadJoin
  \/ TerminateReset \/ TerminateReturn
  \/ InitPThreadCancel \/ PthreadCleanupPush \/ Run \/ RunReturn
  \/ PthreadCleanupPop \/ PThreadCleanupRoutine \/ WrapperReturn
  \/ ExitThread

SpecThread == InitThread /\ [][NextThread]_vars

(* C30: Thread::Terminate is synchronous: whatever the interleaving of the  *)
(* controlling thread and the worker and whatever the joinable flag, when   *)
(* Terminate returns on a started thread the worker has stopped,            *)
(* IsRunning() is false and no handle is attached to the Thread object.     *)
C30_TerminateIsSynchronous ==
  pc = "terminate_returned" =>
    /\ ~Alive
    /\ ~state_.is_running_
    /\ state_.handle_ = "nullptr"

\* What Terminate does guarantee on a joinable Thread, on the platforms
\* with pthread_cleanup_push and pthread_cancel.
TerminateJoinsWhenJoinable ==
  (pc = "terminate_returned" /\ state_.joinable_ /\ os = "OS_LINUX") =>
    (~Alive /\ ~state_.is_running_ /\ state_.handle_ = "nullptr")

====
